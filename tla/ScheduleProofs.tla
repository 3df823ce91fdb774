--------------------------- MODULE ScheduleProofs ---------------------------
(***************************************************************************)
(* Windows are intervals, and schedules switch at their boundaries alone,  *)
(* for every length of the day and of the week, in particular for those of *)
(* the code.                                                               *)
(*                                                                         *)
(* The code splits an instant into a weekday and a minute and treats the   *)
(* hours after midnight apart; the reference measures how long ago a       *)
(* window was opened, around the circle of the week.  The distance is      *)
(* computed once, by cases on the two weekdays (Distance).                 *)
(***************************************************************************)
EXTENDS Schedule, TLAPS

Inv ==
    /\ schedule.windows \in WindowSets
    /\ now \in Int
    /\ offset \in [Zones -> Int]

-----------------------------------------------------------------------------
(* Division *)

LEMMA Division ==
    ASSUME NEW a \in Int, NEW b \in Nat \ {0}
    PROVE  /\ a \div b \in Int
           /\ a % b \in 0..(b - 1)
           /\ a = b * (a \div b) + (a % b)
OBVIOUS

\* A multiple of b between -b and b is zero.
LEMMA SmallMultiple ==
    ASSUME NEW b \in Nat \ {0}, NEW q \in Int, -b < b * q, b * q < b
    PROVE  q = 0
<1>1. q >= 1 => b * q >= b
  OBVIOUS
<1>2. q <= -1 => b * q <= -b
  OBVIOUS
<1> QED
  BY <1>1, <1>2

\* Quotient and remainder are unique.
LEMMA Remainder ==
    ASSUME NEW a \in Int, NEW b \in Nat \ {0}, NEW q \in Int, NEW r \in 0..(b - 1),
           a = b * q + r
    PROVE  a \div b = q /\ a % b = r
<1> DEFINE p == a \div b
           t == a % b
<1>1. p \in Int /\ t \in 0..(b - 1) /\ a = b * p + t
  BY Division
<1> HIDE DEF p, t
<1>2. b * (q - p) = t - r
  <2>1. b * (q - p) = b * q - b * p
    BY <1>1
  <2>2. b * q \in Int /\ b * p \in Int
    BY <1>1
  <2> QED
    BY <1>1, <2>1, <2>2
<1>3. q - p \in Int /\ -b < b * (q - p) /\ b * (q - p) < b
  BY <1>1, <1>2
<1>4. q - p = 0
  BY <1>3, SmallMultiple
<1>5. p = q
  BY <1>1, <1>4
<1>6. t = r
  BY <1>1, <1>2, <1>4
<1> QED
  BY <1>5, <1>6 DEF p, t

\* Days and minutes make up the instants of a week, and nothing else does.
LEMMA Instants ==
    ASSUME NEW D \in Nat \ {0}, NEW K \in Nat \ {0}
    PROVE  /\ D * K \in Nat \ {0}
           /\ \A j \in 0..(K - 1), r \in 0..(D - 1) : D * j + r \in 0..(D * K - 1)
           /\ \A j \in Int, r \in 0..(D - 1) :
                 D * j + r \in 0..(D * K - 1) => j \in 0..(K - 1)
<1>1. D * K \in Nat \ {0}
  <2>1. D * K \in Int /\ D * K >= 1
    OBVIOUS
  <2> QED
    BY <2>1
<1>2. ASSUME NEW j \in 0..(K - 1), NEW r \in 0..(D - 1)
      PROVE  D * j + r \in 0..(D * K - 1)
  <2>1. D * j \in Int /\ D * j >= 0
    OBVIOUS
  <2>2. D * (K - 1 - j) >= 0
    OBVIOUS
  <2>3. D * (K - 1 - j) = D * K - D - D * j
    OBVIOUS
  <2> QED
    BY <1>1, <2>1, <2>2, <2>3
<1>3. ASSUME NEW j \in Int, NEW r \in 0..(D - 1), D * j + r \in 0..(D * K - 1)
      PROVE  j \in 0..(K - 1)
  <2>1. D * j \in Int
    OBVIOUS
  <2>2. j <= -1 => D * j <= -D
    OBVIOUS
  <2>3. j >= K => D * j >= D * K
    OBVIOUS
  <2> QED
    BY <1>1, <1>3, <2>1, <2>2, <2>3
<1> QED
  BY <1>1, <1>2, <1>3

-----------------------------------------------------------------------------
(* How long ago a window was opened *)

\* Less than a day after x is only what lies j = 0 whole days after it.
LEMMA WithinTheDay ==
    ASSUME NEW D \in Nat \ {0}, NEW K \in Nat \ {0}, NEW x \in Int, NEW q \in Int,
           NEW j \in 0..(K - 1), NEW r \in 0..(D - 1), NEW len \in 0..(D - 1),
           x = (D * K) * q + (D * j + r)
    PROVE  x % (D * K) < len <=> j = 0 /\ r < len
<1>1. D * K \in Nat \ {0} /\ D * j + r \in 0..(D * K - 1)
  BY Instants
<1>2. x % (D * K) = D * j + r
  <2> DEFINE b == D * K
             y == D * j + r
  <2>1. b \in Nat \ {0} /\ y \in 0..(b - 1) /\ x = b * q + y
    BY <1>1
  <2> HIDE DEF b, y
  <2>2. x % b = y
    BY <2>1, Remainder
  <2> QED
    BY <2>2 DEF b, y
<1>3. j = 0 \/ (j >= 1 /\ D * j >= D)
  OBVIOUS
<1>4. CASE j = 0
  <2>1. D * j = 0
    BY <1>4
  <2> QED
    BY <1>2, <1>4, <2>1
<1>5. CASE j >= 1 /\ D * j >= D
  <2>1. D * j \in Int
    OBVIOUS
  <2>2. D * j + r >= len
    BY <1>5, <2>1
  <2> QED
    BY <1>1, <1>2, <1>5, <2>2
<1> QED
  BY <1>3, <1>4, <1>5

\* How long after minute s of day d minute m of day v is, around the week.
Elapsed(D, K, v, m, d, s) == ((D * v + m) - (d * D + s)) % (D * K)

Before(K, day) == IF day = 0 THEN K - 1 ELSE day - 1

\* From minute s of day d to minute m of day v it is less than len, which is less
\* than a day, on the same day or on the next one.
LEMMA Distance ==
    ASSUME NEW D \in Nat \ {0}, NEW K \in Nat \ {0},
           NEW v \in 0..(K - 1), NEW d \in 0..(K - 1),
           NEW m \in 0..(D - 1), NEW s \in 0..(D - 1), NEW len \in 0..(D - 1)
    PROVE  Elapsed(D, K, v, m, d, s) < len
               <=> \/ v = d /\ m >= s /\ m - s < len
                   \/ Before(K, v) = d /\ m < s /\ m - s + D < len
<1> DEFINE x == (D * v + m) - (d * D + s)
<1>0. D * v \in Int /\ d * D \in Int /\ d * D = D * d /\ D * K \in Int /\ x \in Int
  OBVIOUS
<1>1. CASE m >= s
  <2>0. m - s \in 0..(D - 1) /\ ~(m < s)
    BY <1>1
  <2>1. CASE v >= d
    <3>1. v - d \in 0..(K - 1)
      BY <2>1
    <3>2. D * (v - d) = D * v - D * d /\ (D * K) * 0 = 0
      BY <1>0
    <3>3. x = (D * K) * 0 + (D * (v - d) + (m - s))
      BY <1>0, <3>2
    <3>4. x % (D * K) < len <=> v - d = 0 /\ m - s < len
      BY <1>0, <2>0, <3>1, <3>3, WithinTheDay
    <3> QED
      BY <1>1, <2>0, <3>4 DEF Elapsed
  <2>2. CASE v < d
    <3>1. v - d + K \in 0..(K - 1) /\ v - d + K # 0
      BY <2>2
    <3>2. D * (v - d + K) = D * v - D * d + D * K /\ (D * K) * (-1) = -(D * K)
      BY <1>0
    <3>3. x = (D * K) * (-1) + (D * (v - d + K) + (m - s))
      BY <1>0, <3>2
    <3>4. x % (D * K) < len <=> v - d + K = 0 /\ m - s < len
      BY <1>0, <2>0, <3>1, <3>3, WithinTheDay
    <3> QED
      BY <2>0, <2>2, <3>1, <3>4 DEF Elapsed
  <2> QED
    BY <2>1, <2>2
<1>2. CASE m < s
  <2>0. m - s + D \in 0..(D - 1) /\ ~(m >= s)
    BY <1>2
  <2>1. CASE v > d
    <3>1. v - d - 1 \in 0..(K - 1)
      BY <2>1
    <3>2. D * (v - d - 1) = D * v - D * d - D /\ (D * K) * 0 = 0
      BY <1>0
    <3>3. x = (D * K) * 0 + (D * (v - d - 1) + (m - s + D))
      BY <1>0, <3>2
    <3>4. x % (D * K) < len <=> v - d - 1 = 0 /\ m - s + D < len
      BY <1>0, <2>0, <3>1, <3>3, WithinTheDay
    <3>5. Before(K, v) = d <=> v - d - 1 = 0
      BY <2>1 DEF Before
    <3> QED
      BY <2>0, <1>2, <3>4, <3>5 DEF Elapsed
  <2>2. CASE v <= d
    <3>1. v - d - 1 + K \in 0..(K - 1)
      BY <2>2
    <3>2. D * (v - d - 1 + K) = D * v - D * d - D + D * K /\ (D * K) * (-1) = -(D * K)
      BY <1>0
    <3>3. x = (D * K) * (-1) + (D * (v - d - 1 + K) + (m - s + D))
      BY <1>0, <3>2
    <3>4. x % (D * K) < len <=> v - d - 1 + K = 0 /\ m - s + D < len
      BY <1>0, <2>0, <3>1, <3>3, WithinTheDay
    <3>5. Before(K, v) = d <=> v - d - 1 + K = 0
      BY <2>2 DEF Before
    <3> QED
      BY <2>0, <1>2, <3>4, <3>5 DEF Elapsed
  <2> QED
    BY <2>1, <2>2
<1> QED
  BY <1>1, <1>2 DEF Elapsed

-----------------------------------------------------------------------------
(* Windows *)

\* The wall clock shows a minute and a weekday.
LEMMA WallClock ==
    ASSUME Inv, NEW z \in Zones
    PROVE  /\ Local(z) \in 0..(Week - 1)
           /\ Weekday(z) \in Days /\ MinuteOf(z) \in Minutes
           /\ Local(z) = DayLength * Weekday(z) + MinuteOf(z)
<1>1. /\ DayLength \in Nat \ {0} /\ DaysPerWeek \in Nat \ {0}
      /\ Week = DayLength * DaysPerWeek /\ Week \in Nat \ {0}
  BY ScheduleAssumption, Instants DEF Week
<1>2. Local(z) \in 0..(Week - 1)
  <2>1. now + offset[z] \in Int
    BY DEF Inv
  <2> QED
    BY <1>1, <2>1, Division DEF Local
<1>3. /\ Weekday(z) \in Int /\ MinuteOf(z) \in 0..(DayLength - 1)
      /\ Local(z) = DayLength * Weekday(z) + MinuteOf(z)
  <2>1. Local(z) \in Int
    BY <1>1, <1>2
  <2> QED
    BY <1>1, <2>1, Division DEF Weekday, MinuteOf
<1>4. Weekday(z) \in 0..(DaysPerWeek - 1)
  BY <1>1, <1>2, <1>3, Instants
<1> QED
  BY <1>2, <1>3, <1>4 DEF Days, Minutes

\* The length of a window, which may reach into the next day.
LEMMA WindowLength ==
    ASSUME NEW s \in Minutes, NEW e \in Minutes
    PROVE  (e - s) % DayLength = IF s > e THEN e - s + DayLength ELSE e - s
<1>1. DayLength \in Nat \ {0} /\ s \in 0..(DayLength - 1) /\ e \in 0..(DayLength - 1)
  BY ScheduleAssumption DEF Minutes
<1>2. CASE s > e
  <2>1. e - s + DayLength \in 0..(DayLength - 1) /\ DayLength * (-1) = -DayLength
    BY <1>1, <1>2
  <2>2. e - s = DayLength * (-1) + (e - s + DayLength)
    BY <1>1, <2>1
  <2>3. (e - s) % DayLength = e - s + DayLength
    BY <1>1, <2>1, <2>2, Remainder
  <2> QED
    BY <1>2, <2>3
<1>3. CASE ~(s > e)
  <2>1. e - s \in 0..(DayLength - 1) /\ DayLength * 0 = 0
    BY <1>1, <1>3
  <2>2. e - s = DayLength * 0 + (e - s)
    BY <1>1, <2>1
  <2>3. (e - s) % DayLength = e - s
    BY <1>1, <2>1, <2>2, Remainder
  <2> QED
    BY <1>3, <2>3
<1> QED
  BY <1>2, <1>3

\* Distance, for the days and minutes of the week.
LEMMA OpenedOnDay ==
    ASSUME NEW v \in Days, NEW d \in Days,
           NEW m \in Minutes, NEW s \in Minutes, NEW len \in Minutes
    PROVE  Elapsed(DayLength, DaysPerWeek, v, m, d, s) < len
               <=> \/ v = d /\ m >= s /\ m - s < len
                   \/ PreviousWeekday(v) = d /\ m < s /\ m - s + DayLength < len
<1>1. /\ DayLength \in Nat \ {0} /\ DaysPerWeek \in Nat \ {0}
      /\ v \in 0..(DaysPerWeek - 1) /\ d \in 0..(DaysPerWeek - 1)
      /\ m \in 0..(DayLength - 1) /\ s \in 0..(DayLength - 1)
      /\ len \in 0..(DayLength - 1)
  BY ScheduleAssumption DEF Days, Minutes
<1>2. PreviousWeekday(v) = Before(DaysPerWeek, v)
  BY DEF PreviousWeekday, Before
<1>3. Elapsed(DayLength, DaysPerWeek, v, m, d, s) < len
         <=> \/ v = d /\ m >= s /\ m - s < len
             \/ Before(DaysPerWeek, v) = d /\ m < s /\ m - s + DayLength < len
  BY <1>1, Distance
<1> QED
  BY <1>2, <1>3

\* IsInWindow is the reference for one window.
LEMMA WindowIsInterval ==
    ASSUME Inv, NEW w \in Windows, w.zone \in Zones
    PROVE  IsInWindow(w) <=> Open(w)
<1> DEFINE v == Weekday(w.zone)
           m == MinuteOf(w.zone)
           len == (w.end - w.start) % DayLength
           days == IF w.days = {} THEN Days ELSE w.days
<1>1. /\ DayLength \in Nat \ {0} /\ DaysPerWeek \in Nat \ {0}
      /\ v \in 0..(DaysPerWeek - 1) /\ m \in 0..(DayLength - 1)
      /\ Local(w.zone) = DayLength * v + m
  BY WallClock, ScheduleAssumption DEF Days, Minutes
<1>2. /\ w.start \in 0..(DayLength - 1) /\ w.end \in 0..(DayLength - 1)
      /\ w.days \subseteq Days /\ days \subseteq 0..(DaysPerWeek - 1)
  BY DEF Windows, Minutes, Days
<1>3. /\ len = IF w.start > w.end THEN w.end - w.start + DayLength ELSE w.end - w.start
      /\ len \in 0..(DayLength - 1)
  <2>1. len = IF w.start > w.end THEN w.end - w.start + DayLength ELSE w.end - w.start
    BY <1>2, WindowLength DEF Minutes
  <2> QED
    BY <1>1, <1>2, <2>1
<1>4. Before(DaysPerWeek, v) = PreviousWeekday(v) /\ PreviousWeekday(v) \in Days
  BY <1>1 DEF Before, PreviousWeekday, Days
<1>5. v \in Days
  BY <1>1 DEF Days
<1> HIDE DEF v, m, len
<1>6. Open(w) <=> \E d \in days :
                     \/ v = d /\ m >= w.start /\ m - w.start < len
                     \/ /\ PreviousWeekday(v) = d /\ m < w.start
                        /\ m - w.start + DayLength < len
  <2>1. ASSUME NEW d \in days
        PROVE  (Local(w.zone) - (d * DayLength + w.start)) % Week < len
                  <=> \/ v = d /\ m >= w.start /\ m - w.start < len
                      \/ /\ PreviousWeekday(v) = d /\ m < w.start
                         /\ m - w.start + DayLength < len
    <3>1. /\ d \in Days /\ v \in Days
          /\ m \in Minutes /\ w.start \in Minutes /\ len \in Minutes
      BY <1>1, <1>2, <1>3 DEF Days, Minutes
    <3>2. (Local(w.zone) - (d * DayLength + w.start)) % Week
             = Elapsed(DayLength, DaysPerWeek, v, m, d, w.start)
      BY <1>1 DEF Elapsed, Week
    <3> QED
      BY <3>1, <3>2, OpenedOnDay
  <2> QED
    BY <2>1 DEF Open, len
<1>7. Open(w) <=> \/ v \in days /\ m >= w.start /\ m - w.start < len
                  \/ /\ PreviousWeekday(v) \in days /\ m < w.start
                     /\ m - w.start + DayLength < len
  BY <1>6
<1>8. CASE w.start > w.end
  <2>1. /\ m >= w.start => m - w.start < len
        /\ m < w.start => (m - w.start + DayLength < len <=> m < w.end)
        /\ m < w.end => m < w.start
        /\ m < w.start <=> ~(m >= w.start)
    BY <1>1, <1>2, <1>3, <1>8
  <2>2. Open(w) <=> \/ v \in days /\ m >= w.start
                    \/ PreviousWeekday(v) \in days /\ m < w.end
    BY <1>7, <2>1
  <2>3. IsInWindow(w) <=> /\ w.days # {} => IF m < w.end THEN PreviousWeekday(v) \in w.days
                                                       ELSE v \in w.days
                          /\ m >= w.start \/ m < w.end
    BY <1>8 DEF IsInWindow, IsDayMatch, CrossesMidnight, v, m
  <2> QED
    BY <1>4, <1>5, <2>1, <2>2, <2>3
<1>9. CASE ~(w.start > w.end)
  <2>1. /\ ~(m < w.start /\ m - w.start + DayLength < len)
        /\ m >= w.start => (m - w.start < len <=> m < w.end)
    BY <1>1, <1>2, <1>3, <1>9
  <2>2. Open(w) <=> v \in days /\ m >= w.start /\ m < w.end
    BY <1>7, <2>1
  <2>3. IsInWindow(w) <=> /\ w.days # {} => v \in w.days
                          /\ m >= w.start /\ m < w.end
    BY <1>9 DEF IsInWindow, IsDayMatch, CrossesMidnight, v, m
  <2> QED
    BY <1>5, <2>2, <2>3
<1> QED
  BY <1>8, <1>9

-----------------------------------------------------------------------------
(* The clock runs *)

\* A minute later the wall clock shows the next minute, or the first of the next
\* day.
LEMMA NextMinute ==
    ASSUME Inv, Tick, NEW z \in Zones
    PROVE  \/ /\ MinuteOf(z)' = MinuteOf(z) + 1
              /\ Weekday(z)' = Weekday(z)
           \/ /\ MinuteOf(z)' = 0 /\ MinuteOf(z) = DayLength - 1
              /\ PreviousWeekday(Weekday(z)') = Weekday(z)
<1> DEFINE v == Weekday(z)
           m == MinuteOf(z)
           D == DayLength
           K == DaysPerWeek
<1>1. /\ D \in Nat \ {0} /\ K \in Nat \ {0}
      /\ Week = D * K /\ Week \in Nat \ {0}
  BY ScheduleAssumption, Instants DEF Week
<1>2. v \in 0..(K - 1) /\ m \in 0..(D - 1) /\ Local(z) = D * v + m
  BY WallClock DEF Days, Minutes
<1>3. /\ Local(z)' = (now' + offset[z]) % Week
      /\ Weekday(z)' = Local(z)' \div D /\ MinuteOf(z)' = Local(z)' % D
  BY DEF Local, Weekday, MinuteOf, Tick
<1>4. \E p \in Int : now' + offset[z] = Week * p + (D * v + m + 1)
  <2>1. now \in Int /\ offset[z] \in Int
    BY DEF Inv
  <2>2. PICK q \in Int : now + offset[z] = Week * q + Local(z)
    <3>1. now + offset[z] \in Int
      BY <2>1
    <3> QED
      BY <1>1, <3>1, Division DEF Local
  <2>3. PICK r \in Int : now + 1 = Week * r + now'
    <3>1. now + 1 \in Int
      BY <2>1
    <3> QED
      BY <1>1, <3>1, Division DEF Tick
  <2>4. now' \in Int /\ Week * q \in Int /\ Week * r \in Int /\ D * v \in Int
    <3>1. now' \in Int
      BY <1>1, <2>1, Division DEF Tick
    <3> QED
      BY <1>1, <1>2, <3>1
  <2>5. Week * (q - r) = Week * q - Week * r
    BY <1>1
  <2>6. now' + offset[z] = Week * (q - r) + (D * v + m + 1)
    <3>1. PICK a \in Int, b \in Int, c \in Int : a = Week * q /\ b = Week * r /\ c = D * v
      BY <2>4
    <3>2. now + offset[z] = a + (c + m) /\ now + 1 = b + now'
      BY <1>2, <2>2, <2>3, <3>1
    <3>3. PICK n \in Int, o \in Int, l \in Int : n = now' /\ o = offset[z] /\ l = m
      BY <1>2, <2>1, <2>4
    <3>4. now + 1 = b + n
      BY <3>2, <3>3
    <3>5. now = b + n - 1
      BY <2>1, <3>4
    <3>6. now + o = a + (c + l)
      BY <3>2, <3>3
    <3>7. n + o = (a - b) + (c + l + 1)
      BY <3>5, <3>6
    <3>8. Week * (q - r) = a - b
      BY <2>5, <3>1
    <3> QED
      BY <3>1, <3>3, <3>7, <3>8
  <2>7. q - r \in Int
    OBVIOUS
  <2> QED
    BY <2>6, <2>7
<1>5. PICK p \in Int : now' + offset[z] = Week * p + (D * v + m + 1)
  BY <1>4
<1>6. now' + offset[z] \in Int /\ Week * p \in Int /\ D * v \in Int
  <2>1. Week * p \in Int /\ D * v \in Int
    BY <1>1, <1>2
  <2> QED
    BY <1>2, <1>5, <2>1
<1> HIDE DEF v, m, D, K
\* The instant that is now shown, as a day and a minute.
<1>7. ASSUME NEW j \in 0..(K - 1), NEW r \in 0..(D - 1), NEW q \in Int,
             now' + offset[z] = Week * q + (D * j + r)
      PROVE  Weekday(z)' = j /\ MinuteOf(z)' = r
  <2> DEFINE y == D * j + r
  <2>1. y \in 0..(Week - 1) /\ y \in Int
    BY <1>1, Instants
  <2>2. Local(z)' = y
    <3> HIDE DEF y
    <3>1. now' + offset[z] = Week * q + y
      BY <1>7 DEF y
    <3> QED
      BY <1>1, <1>3, <1>6, <2>1, <3>1, Remainder
  <2> QED
    BY <1>1, <1>3, <2>1, <2>2, Remainder
<1>8. CASE m + 1 < D
  <2>1. m + 1 \in 0..(D - 1)
    BY <1>1, <1>2, <1>8
  <2>2. now' + offset[z] = Week * p + (D * v + (m + 1))
    BY <1>2, <1>5, <1>6
  <2> QED
    BY <1>2, <1>7, <2>1, <2>2 DEF v, m
<1>9. CASE m = D - 1 /\ v < K - 1
  <2>1. v + 1 \in 0..(K - 1) /\ 0 \in 0..(D - 1) /\ D * (v + 1) = D * v + D
    BY <1>1, <1>2, <1>9
  <2>2. now' + offset[z] = Week * p + (D * (v + 1) + 0)
    BY <1>1, <1>2, <1>5, <1>6, <1>9, <2>1
  <2>3. Weekday(z)' = v + 1 /\ MinuteOf(z)' = 0
    BY <1>7, <2>1, <2>2
  <2>4. PreviousWeekday(v + 1) = v
    BY <1>2 DEF PreviousWeekday
  <2> QED
    BY <1>9, <2>3, <2>4 DEF v, m, D
<1>10. CASE m = D - 1 /\ v = K - 1
  <2>1. /\ 0 \in 0..(K - 1) /\ 0 \in 0..(D - 1) /\ D * 0 = 0
        /\ D * (K - 1) = D * K - D
        /\ Week * (p + 1) = Week * p + Week
    BY <1>1, <1>2
  <2>2. now' + offset[z] = Week * (p + 1) + (D * 0 + 0)
    BY <1>1, <1>2, <1>5, <1>6, <1>10, <2>1
  <2>3. p + 1 \in Int
    OBVIOUS
  <2>4. Weekday(z)' = 0 /\ MinuteOf(z)' = 0
    BY <1>7, <2>1, <2>2, <2>3
  <2>5. PreviousWeekday(0) = v
    BY <1>10 DEF PreviousWeekday, K
  <2> QED
    BY <1>10, <2>4, <2>5 DEF v, m, D
<1> QED
  BY <1>1, <1>2, <1>8, <1>9, <1>10

\* Unless the minute that begins is the start or the end of it, a window is open
\* after a tick iff it was open before.
LEMMA WindowStays ==
    ASSUME Inv, Tick, NEW w \in Windows, w.zone \in Zones,
           MinuteOf(w.zone)' \notin {w.start, w.end}
    PROVE  IsInWindow(w)' <=> IsInWindow(w)
<1> DEFINE z == w.zone
           m == MinuteOf(z)
           v == Weekday(z)
<1>1. /\ m \in 0..(DayLength - 1) /\ DayLength \in Nat \ {0}
      /\ w.start \in 0..(DayLength - 1) /\ w.end \in 0..(DayLength - 1)
  BY WallClock, ScheduleAssumption DEF Windows, Minutes
<1>2. CASE MinuteOf(z)' = m + 1 /\ Weekday(z)' = v
  <2>1. /\ m + 1 >= w.start <=> m >= w.start
        /\ m + 1 < w.end <=> m < w.end
    BY <1>1, <1>2
  <2>2. /\ MinuteOf(z)' >= w.start <=> m >= w.start
        /\ MinuteOf(z)' < w.end <=> m < w.end
    BY <1>2, <2>1
  <2>3. IsDayMatch(w)' <=> IsDayMatch(w)
    BY <1>2, <2>2 DEF IsDayMatch, CrossesMidnight
  <2> QED
    BY <2>2, <2>3 DEF IsInWindow, CrossesMidnight
<1>3. CASE /\ MinuteOf(z)' = 0 /\ m = DayLength - 1
           /\ PreviousWeekday(Weekday(z)') = v
  <2>1. /\ ~(m < w.end) /\ m >= w.start
        /\ 0 < w.end /\ ~(0 >= w.start)
    BY <1>1, <1>3
  <2>2. /\ MinuteOf(z)' < w.end /\ ~(MinuteOf(z)' >= w.start)
    BY <1>3, <2>1
  <2>3. CASE CrossesMidnight(w)
    <3>1. IsInWindow(w) <=> (w.days # {} => v \in w.days)
      BY <2>1, <2>3 DEF IsInWindow, IsDayMatch
    <3>2. IsInWindow(w)' <=> (w.days # {} => v \in w.days)
      BY <1>3, <2>2, <2>3 DEF IsInWindow, IsDayMatch, CrossesMidnight
    <3> QED
      BY <3>1, <3>2
  <2>4. CASE ~CrossesMidnight(w)
    BY <2>1, <2>2, <2>4 DEF IsInWindow, CrossesMidnight
  <2> QED
    BY <2>3, <2>4
<1> QED
  BY <1>2, <1>3, NextMinute

-----------------------------------------------------------------------------
(* Theorems *)

LEMMA Start == Init => Inv
BY DEF Init, Inv

LEMMA Step == Inv /\ [Next]_vars => Inv'
<1> SUFFICES ASSUME Inv, [Next]_vars PROVE Inv'
  OBVIOUS
<1>0. Week \in Nat \ {0}
  BY ScheduleAssumption, Instants DEF Week
<1>1. CASE Tick
  <2>1. (now + 1) % Week \in Int
    BY <1>0, Division DEF Inv
  <2> QED
    BY <1>1, <2>1 DEF Tick, Inv
<1>2. CASE \E z \in Zones : ShiftClock(z)
  <2>1. PICK z \in Zones, by \in {1, Week - 1} :
           /\ offset' = [offset EXCEPT ![z] = (@ + by) % Week]
           /\ UNCHANGED <<schedule, now>>
    BY <1>2 DEF ShiftClock
  <2>2. offset[z] + by \in Int
    BY <1>0 DEF Inv
  <2>3. (offset[z] + by) % Week \in Int
    BY <1>0, <2>2, Division
  <2> QED
    BY <2>1, <2>3 DEF Inv
<1>3. CASE UNCHANGED vars
  BY <1>3 DEF vars, Inv
<1> QED
  BY <1>1, <1>2, <1>3 DEF Next

\* The windows of the schedule are well-formed, and the clocks show integers.
THEOREM Invariance == Spec => []Inv
<1>1. Init => Inv
  BY Start
<1>2. Inv /\ [Next]_vars => Inv'
  BY Step
<1> QED
  BY <1>1, <1>2, PTL DEF Spec

\* IsInWindow is the interval on the circle of the week that the window names, at
\* every instant, for every window, zone, length of day and length of week
\* (IsInWindow, isDayMatch, previousWeekday).
THEOREM WindowsAreIntervalsHold == Spec => []WindowsAreIntervals
<1>1. Inv => WindowsAreIntervals
  <2> SUFFICES ASSUME Inv, NEW w \in schedule.windows
               PROVE  IsInWindow(w) <=> Open(w)
    BY DEF WindowsAreIntervals
  <2>1. w \in Windows
    BY ScheduleAssumption DEF Inv
  <2>2. CASE w.zone \in Zones
    BY <2>1, <2>2, WindowIsInterval
  <2>3. CASE w.zone \notin Zones
    BY <2>3 DEF IsInWindow, Open
  <2> QED
    BY <2>2, <2>3
<1> QED
  BY <1>1, Invariance, PTL

\* A running clock switches a schedule only at the start or the end of one of its
\* windows, not at midnight and not at the end of the week (EvaluateSchedule).
THEOREM SwitchesAtBoundariesHolds == Spec => SwitchesAtBoundaries
<1> DEFINE Switch == EvaluateSchedule(schedule)' # EvaluateSchedule(schedule)
           Boundary == \E w \in schedule.windows :
                          /\ w.zone \in Zones
                          /\ MinuteOf(w.zone)' \in {w.start, w.end}
<1>1. ASSUME Inv, Next, now' # now, ~Boundary PROVE ~Switch
  <2>1. Tick
    BY <1>1 DEF Next, ShiftClock
  <2>2. schedule' = schedule
    BY <2>1 DEF Tick
  <2>3. ASSUME NEW w \in schedule.windows PROVE IsInWindow(w)' <=> IsInWindow(w)
    <3>1. w \in Windows
      BY <1>1, ScheduleAssumption DEF Inv
    <3>2. CASE w.zone \in Zones
      BY <1>1, <2>1, <3>1, <3>2, WindowStays
    <3>3. CASE w.zone \notin Zones
      BY <3>3 DEF IsInWindow
    <3> QED
      BY <3>2, <3>3
  <2>4. IsInAnyWindow(schedule.windows)' <=> IsInAnyWindow(schedule.windows)
    BY <2>2, <2>3 DEF IsInAnyWindow
  <2> QED
    BY <2>2, <2>4 DEF EvaluateSchedule
<1>2. Inv /\ [Next]_vars => [now' # now /\ Switch => Boundary]_vars
  BY <1>1
<1> QED
  BY <1>2, Invariance, PTL DEF Spec, SwitchesAtBoundaries
=============================================================================
