-------------------------- MODULE DispatcherProofs --------------------------
(***************************************************************************)
(* What Dispatcher guarantees for any number of events, channels, failures *)
(* and restarts, and any capacity of the queue and of the histories.       *)
(*                                                                         *)
(* The invariant says of the status of a channel that it is a history: its *)
(* attempts have different identifiers, none younger than the last one     *)
(* given out, and the last attempt is among the recent ones (so counting   *)
(* the recent ones counts it).  Of the dispatcher it says what it has      *)
(* stored of the attempt that it is making, and that the events it still   *)
(* has to send were not sent before if it has seen a complete history.     *)
(***************************************************************************)
EXTENDS Dispatcher, FiniteSetTheorems, SequenceTheorems, TLAPS

\* A status that is a history of attempts up to identifier n.
Sound(s, n) ==
    /\ s \in ChannelObjects
    /\ IsFiniteSet(s.recent)
    /\ Cardinality(s.recent) <= MaxRecent
    /\ \A a, b \in s.recent : a.id = b.id => a = b
    /\ \A a \in s.recent : a.id \in 1..n
    /\ s.last = NoAttempt \/ s.last \in s.recent

-----------------------------------------------------------------------------
(* The operators on a status *)

\* A set of attempts that is not empty has an oldest one.
LEMMA OldestExists ==
    ASSUME NEW S \in SUBSET Attempts, S # {}
    PROVE  Oldest(S) \in S /\ \A b \in S : Oldest(S).id <= b.id
<1> DEFINE R == OpToRel(<, Nat)
           T == {a.id : a \in S}
<1>1. T \subseteq Nat /\ T # {}
  BY DEF Attempts
<1>2. \E x \in T : \A y \in T : ~(<<y, x>> \in R)
  BY <1>1, NatLessThanWellFounded, WFMin
<1>3. PICK x \in T : \A y \in T : ~(<<y, x>> \in R)
  BY <1>2
<1>4. ASSUME NEW y \in T PROVE x <= y
  <2>1. x \in Nat /\ y \in Nat /\ ~(<<y, x>> \in R)
    BY <1>1, <1>3
  <2>2. y < x => <<y, x>> \in R
    BY <2>1 DEF OpToRel
  <2> HIDE DEF R
  <2> QED
    BY <2>1, <2>2
<1>5. \E a \in S : \A b \in S : a.id <= b.id
  BY <1>4
<1> QED
  BY <1>5 DEF Oldest

\* If t is s with an attempt that is new to it, then nothing is missing from t, or
\* it is full and all its attempts are younger than the one that is missing.
Appended(s, t, a) ==
    (\A b \in s.recent : b.id # a.id) =>
        \/ t.recent = s.recent \cup {a}
        \/ /\ Cardinality(t.recent) = MaxRecent
           /\ \E o \in s.recent :
                 /\ t.recent = (s.recent \cup {a}) \ {o}
                 /\ \A b \in t.recent : o.id < b.id

\* The youngest attempt is stored, and nothing else is added or changed.
LEMMA StoreAttemptSound ==
    ASSUME NEW n \in Nat, NEW s, Sound(s, n), NEW a \in Attempts, a.id = n, n # 0
    PROVE  LET t == StoreAttempt(s, a)
           IN  /\ Sound(t, n)
               /\ t.last = a /\ a \in t.recent
               /\ \A b \in t.recent : b = a \/ (b \in s.recent /\ b.id # a.id)
               /\ (\E b \in s.recent : b.id = a.id) =>
                     \A b \in s.recent : b.id # a.id => b \in t.recent
               /\ Appended(s, t, a)
               /\ t.wants = s.wants /\ t.sent = s.sent /\ t.errors = s.errors
<1> DEFINE same == \E b \in s.recent : b.id = a.id
           all == s.recent \cup {a}
           r == IF same THEN {b \in s.recent : b.id # a.id} \cup {a}
                ELSE IF Cardinality(all) > MaxRecent THEN all \ {Oldest(all)} ELSE all
<1>1. s.recent \subseteq Attempts /\ IsFiniteSet(s.recent) /\ Cardinality(s.recent) \in Nat
  BY FS_CardinalityType DEF Sound, ChannelObjects
<1>2. /\ a \in r
      /\ \A b \in r : b = a \/ (b \in s.recent /\ b.id # a.id)
      /\ same => \A b \in s.recent : b.id # a.id => b \in r
      /\ IsFiniteSet(r) /\ Cardinality(r) <= MaxRecent
      /\ ~same => \/ r = s.recent \cup {a}
                  \/ /\ Cardinality(r) = MaxRecent
                     /\ \E o \in s.recent : /\ r = (s.recent \cup {a}) \ {o}
                                            /\ \A b \in r : o.id < b.id
  <2>1. CASE same
    <3>1. PICK b \in s.recent : b.id = a.id
      BY <2>1
    <3> DEFINE q == s.recent \ {b}
    <3>2. r = q \cup {a}
      BY <2>1, <3>1 DEF Sound
    <3>3. IsFiniteSet(q) /\ Cardinality(q) = Cardinality(s.recent) - 1
      BY <1>1, FS_RemoveElement
    <3>4. q \subseteq s.recent /\ \A d \in q : d.id # a.id
      BY <3>1 DEF Sound
    <3>5. \A d \in s.recent : d.id # a.id => d \in q
      BY <3>1
    <3> HIDE DEF q
    <3>6. IsFiniteSet(q \cup {a}) /\ Cardinality(q \cup {a}) <= Cardinality(q) + 1
      <4>1. Cardinality(q) \in Nat
        BY <3>3, FS_CardinalityType
      <4>2. /\ IsFiniteSet(q \cup {a})
            /\ Cardinality(q \cup {a}) = IF a \in q THEN Cardinality(q) ELSE Cardinality(q) + 1
        BY <3>3, FS_AddElement
      <4> QED
        BY <4>1, <4>2
    <3>7. Cardinality(s.recent) <= MaxRecent
      BY DEF Sound
    <3>8. IsFiniteSet(r) /\ Cardinality(r) <= MaxRecent
      <4> HIDE DEF r
      <4> QED
        BY <1>1, <3>2, <3>3, <3>6, <3>7, DispatcherAssumption, FS_CardinalityType
    <3> HIDE DEF r
    <3> QED
      BY <2>1, <3>2, <3>4, <3>5, <3>8
  <2>2. CASE ~same
    <3>1. a \notin s.recent /\ \A b \in s.recent : b.id < a.id
      BY <1>1, <2>2 DEF Sound, Attempts
    <3>2. IsFiniteSet(all) /\ Cardinality(all) = Cardinality(s.recent) + 1
      BY <1>1, <3>1, FS_AddElement
    <3>3. CASE Cardinality(all) > MaxRecent
      <4>1. all \in SUBSET Attempts /\ all # {}
        BY <1>1
      <4> DEFINE o == Oldest(all)
      <4>2. o \in all /\ \A b \in all : o.id <= b.id
        BY <4>1, OldestExists
      <4>3. s.recent # {}
        <5>1. Cardinality(s.recent) >= MaxRecent
          BY <1>1, <3>2, <3>3, DispatcherAssumption
        <5> QED
          BY <1>1, <5>1, FS_EmptySet, DispatcherAssumption
      <4> HIDE DEF o
      <4>4. o # a
        <5>1. PICK b \in s.recent : TRUE
          BY <4>3
        <5> QED
          BY <1>1, <3>1, <4>2, <5>1 DEF Attempts
      <4>5. IsFiniteSet(all \ {o}) /\ Cardinality(all \ {o}) = Cardinality(all) - 1
        BY <3>2, <4>2, FS_RemoveElement
      <4>6. r = all \ {o}
        BY <2>2, <3>3 DEF o
      <4>7. Cardinality(s.recent) <= MaxRecent
        BY DEF Sound
      <4>8. IsFiniteSet(r) /\ Cardinality(r) = MaxRecent
        <5> HIDE DEF r, all
        <5> QED
          BY <1>1, <3>2, <3>3, <4>5, <4>6, <4>7, DispatcherAssumption
      <4>9. a \in r /\ \A b \in r : b = a \/ b \in s.recent
        BY <4>4, <4>6
      <4>10. o \in s.recent
        BY <4>2, <4>4
      <4>11. ASSUME NEW b \in all, b # o PROVE o.id < b.id
        <5>1. o.id <= b.id /\ o.id \in Nat /\ b.id \in Nat
          BY <1>1, <4>1, <4>2 DEF Attempts
        <5>2. o.id # b.id
          BY <3>1, <4>10, <4>11, <1>1 DEF Sound, Attempts
        <5> QED
          BY <5>1, <5>2
      <4>12. \A b \in r : o.id < b.id
        BY <4>6, <4>11
      <4> HIDE DEF r, same
      <4>13. Cardinality(r) <= MaxRecent
        BY <4>8, DispatcherAssumption
      <4> QED
        BY <2>2, <3>1, <4>6, <4>8, <4>9, <4>10, <4>12, <4>13 DEF same
    <3>4. CASE ~(Cardinality(all) > MaxRecent)
      <4>1. r = all
        BY <2>2, <3>4
      <4>2. Cardinality(all) <= MaxRecent
        BY <1>1, <3>2, <3>4, DispatcherAssumption
      <4> HIDE DEF r
      <4> QED
        BY <2>2, <3>1, <3>2, <4>1, <4>2
    <3> QED
      BY <3>3, <3>4
  <2> QED
    BY <2>1, <2>2
<1>3. StoreAttempt(s, a) = [s EXCEPT !.last = a, !.recent = r]
  BY DEF StoreAttempt
<1> HIDE DEF r
<1>4. r \subseteq Attempts /\ \A b \in r : b.id \in 1..n
  BY <1>1, <1>2 DEF Sound
<1>5. \A b, d \in r : b.id = d.id => b = d
  BY <1>2 DEF Sound
<1> DEFINE t == [s EXCEPT !.last = a, !.recent = r]
<1>6. /\ t \in ChannelObjects /\ t.last = a /\ t.recent = r
      /\ t.wants = s.wants /\ t.sent = s.sent /\ t.errors = s.errors
  BY <1>4 DEF Sound, ChannelObjects
<1> HIDE DEF t
<1>7. Sound(t, n)
  BY <1>2, <1>4, <1>5, <1>6 DEF Sound
<1>8. Appended(s, t, a)
  BY <1>2, <1>6 DEF Appended
<1> QED
  BY <1>2, <1>3, <1>6, <1>7, <1>8 DEF t

\* The attempts that are open in s and closed in t, and that the counters of t
\* count nothing else.
Closing(s, t) ==
    {a \in s.recent : Open(a) /\ \E b \in t.recent : b.id = a.id /\ ~Open(b)}
Counted(s, t) ==
    /\ Total(t) = Total(s) + Cardinality(Closing(s, t))
    /\ \A a \in s.recent, b \in t.recent : a.id = b.id /\ ~Open(a) => b = a

\* A status whose attempts are the same counts the same.
LEMMA SameCounted ==
    ASSUME NEW n \in Nat, NEW s, Sound(s, n), NEW t,
           t.recent = s.recent, t.sent = s.sent, t.errors = s.errors
    PROVE  Counted(s, t)
<1>1. Closing(s, t) = {}
  BY DEF Closing, Sound
<1>2. Total(s) \in Nat /\ Total(t) = Total(s)
  BY DEF Total, Sound, ChannelObjects
<1> QED
  BY <1>1, <1>2, FS_EmptySet DEF Counted, Sound

\* Beginning an attempt, or beginning it again, closes none.
LEMMA BeginCounted ==
    ASSUME NEW n \in Nat, n # 0, NEW s, Sound(s, n), NEW a \in Attempts, a.id = n,
           Open(a), \A b \in s.recent : b.id = a.id => b = a
    PROVE  Counted(s, StoreAttempt(s, a))
<1> DEFINE t == StoreAttempt(s, a)
<1>1. /\ \A b \in t.recent : b = a \/ (b \in s.recent /\ b.id # a.id)
      /\ t.sent = s.sent /\ t.errors = s.errors
  BY StoreAttemptSound
<1> HIDE DEF t
<1>2. Closing(s, t) = {}
  BY <1>1 DEF Closing, Sound
<1>3. Total(s) \in Nat /\ Total(t) = Total(s)
  BY <1>1 DEF Total, Sound, ChannelObjects
<1>4. Counted(s, t)
  BY <1>1, <1>2, <1>3, FS_EmptySet DEF Counted, Sound
<1> QED
  BY <1>4 DEF t

Closed(a, p) == [a EXCEPT !.phase = p]

\* Finishing an attempt closes it once, however often that is repeated.
LEMMA FinishSound ==
    ASSUME NEW n \in Nat, n # 0, NEW s, Sound(s, n), NEW a \in Attempts, a.id = n,
           Open(a), NEW p \in {"Succeeded", "Failed"},
           s.last \in {a, Closed(a, p)}
    PROVE  LET t == Finished(s, a, p)
           IN  /\ Sound(t, n) /\ Counted(s, t)
               /\ t.last = Closed(a, p)
<1> DEFINE c == Closed(a, p)
<1>1. c \in Attempts /\ c.id = n /\ ~Open(c) /\ c.phase = p
  BY DEF Attempts, Phases, Open, Closed
<1> HIDE DEF c
<1>2. s.last.id = n /\ s.last \in s.recent
  <2>1. s.last.id = n
    BY <1>1 DEF c
  <2>2. NoAttempt.id = 0
    BY DEF NoAttempt
  <2>3. s.last # NoAttempt
    BY <2>1, <2>2
  <2> QED
    BY <2>1, <2>3 DEF Sound
<1>3. CASE s.last = c
  <2>1. Finished(s, a, p) = s
    BY <1>1, <1>3 DEF Finished
  <2> QED
    BY <1>3, <2>1, SameCounted DEF c
<1>4. CASE s.last = a
  <2> DEFINE u == StoreAttempt(s, c)
             t == [u EXCEPT !.sent = IF p = "Succeeded" THEN @ + 1 ELSE @,
                            !.errors = IF p = "Failed" THEN @ + 1 ELSE @]
  <2>1. Finished(s, a, p) = t
    BY <1>4 DEF Finished, c, Closed
  <2>2. /\ Sound(u, n) /\ u.last = c /\ c \in u.recent
        /\ \A b \in u.recent : b = c \/ (b \in s.recent /\ b.id # c.id)
        /\ u.sent = s.sent /\ u.errors = s.errors
    BY <1>1, StoreAttemptSound
  <2> HIDE DEF u
  <2> DEFINE x == IF p = "Succeeded" THEN u.sent + 1 ELSE u.sent
             y == IF p = "Failed" THEN u.errors + 1 ELSE u.errors
  <2>a. u \in ChannelObjects /\ s \in ChannelObjects
    BY <2>2 DEF Sound
  <2>b. u.sent \in Nat /\ u.errors \in Nat
    BY <2>a DEF ChannelObjects
  <2>c. x \in Nat /\ y \in Nat /\ x + y = (u.sent + u.errors) + 1
    BY <2>b
  <2>d. t = [u EXCEPT !.sent = x, !.errors = y]
    BY <2>a DEF ChannelObjects
  <2> HIDE DEF t, x, y
  <2>3. /\ t \in ChannelObjects /\ t.recent = u.recent /\ t.last = u.last
        /\ t.sent = x /\ t.errors = y
    BY <2>a, <2>c, <2>d DEF ChannelObjects
  <2>4. Total(t) = Total(s) + 1 /\ Total(s) \in Nat
    BY <2>2, <2>3, <2>b, <2>c DEF Total
  <2>5. Sound(t, n)
    BY <2>2, <2>3 DEF Sound
  <2>6. Closing(s, t) = {a}
    BY <1>1, <1>2, <1>4, <2>2, <2>3 DEF Closing, Sound
  <2>7. Counted(s, t)
    <3>1. Cardinality({a}) = 1
      BY FS_Singleton
    <3>2. Total(t) = Total(s) + Cardinality(Closing(s, t))
      BY <2>4, <2>6, <3>1
    <3>3. ASSUME NEW b \in s.recent, NEW d \in t.recent, b.id = d.id, ~Open(b)
          PROVE  d = b
      <4>1. CASE d = c
        BY <1>1, <1>2, <1>4, <3>3, <4>1 DEF Sound
      <4>2. CASE d \in s.recent
        BY <3>3, <4>2 DEF Sound
      <4> QED
        BY <2>2, <2>3, <4>1, <4>2
    <3> QED
      BY <3>2, <3>3 DEF Counted
  <2> QED
    BY <2>1, <2>2, <2>3, <2>5, <2>7 DEF c
<1> QED
  BY <1>3, <1>4 DEF c

\* Closing keeps the identity of an attempt.
LEMMA CloseIfFields ==
    ASSUME NEW a \in Attempts, NEW l
    PROVE  /\ CloseIf(a, l) \in Attempts /\ CloseIf(a, l).id = a.id
           /\ Unfinished(a, l) => ~Open(CloseIf(a, l))
           /\ ~Unfinished(a, l) => CloseIf(a, l) = a
  BY DEF CloseIf, Attempts, Phases, Open

\* Recovery closes the attempts that it counts.
LEMMA RecoverSound ==
    ASSUME NEW n \in Nat, NEW s, Sound(s, n), NEW l \in Nat
    PROVE  Sound(Recovered(s, l), n) /\ Counted(s, Recovered(s, l))
<1> DEFINE r == {CloseIf(a, l) : a \in s.recent}
           k == {a \in s.recent : Unfinished(a, l)}
           e == s.errors + Cardinality(k)
           t == [s EXCEPT !.recent = r, !.last = CloseIf(s.last, l), !.errors = e]
<1>1. s.recent \subseteq Attempts /\ NoAttempt \in Attempts /\ s.last \in Attempts
  BY DEF Sound, ChannelObjects, NoAttempt, Attempts, Phases
<1>2. IsFiniteSet(r) /\ Cardinality(r) <= MaxRecent
  <2> DEFINE f == [a \in s.recent |-> CloseIf(a, l)]
  <2>1. f \in Surjection(s.recent, r)
    BY DEF Surjection
  <2>2. IsFiniteSet(s.recent) /\ Cardinality(s.recent) <= MaxRecent
    BY DEF Sound
  <2> HIDE DEF f, r
  <2>3. IsFiniteSet(r) /\ Cardinality(r) <= Cardinality(s.recent)
    BY <2>1, <2>2, FS_Surjection
  <2> QED
    BY <2>2, <2>3, FS_CardinalityType, DispatcherAssumption
<1>3. IsFiniteSet(k) /\ Cardinality(k) \in Nat
  BY FS_Subset, FS_CardinalityType DEF Sound
<1>4. /\ r \subseteq Attempts
      /\ \A b \in r : \E a \in s.recent : b = CloseIf(a, l) /\ b.id = a.id
  BY <1>1, CloseIfFields
<1>a. s \in ChannelObjects /\ s.errors \in Nat
  BY DEF Sound, ChannelObjects
<1>b. e \in Nat
  BY <1>3, <1>a
<1>5. Recovered(s, l) = t
  <2> DEFINE extra == IF /\ Unfinished(s.last, l)
                         /\ \A a \in k : a.id # s.last.id
                      THEN 1 ELSE 0
  <2>1. ~(/\ Unfinished(s.last, l)
          /\ \A a \in k : a.id # s.last.id)
    BY DEF Sound, Unfinished, Open, NoAttempt
  <2>2. Recovered(s, l) = [s EXCEPT !.recent = r, !.last = CloseIf(s.last, l),
                                    !.errors = s.errors + Cardinality(k) + extra]
    BY <1>a DEF Recovered, ChannelObjects
  <2>3. extra = 0
    BY <2>1
  <2> HIDE DEF extra, r, k
  <2>4. s.errors + Cardinality(k) + extra = e
    BY <1>3, <1>a, <2>3
  <2> QED
    BY <2>2, <2>4
<1> HIDE DEF e
<1>6. /\ t \in ChannelObjects /\ t.recent = r /\ t.last = CloseIf(s.last, l)
      /\ t.sent = s.sent /\ t.errors = e
  <2> HIDE DEF r, k
  <2>1. CloseIf(s.last, l) \in Attempts
    BY <1>1, CloseIfFields
  <2> QED
    BY <1>a, <1>b, <1>4, <2>1 DEF ChannelObjects
<1>7. \A a, b \in r : a.id = b.id => a = b
  BY <1>4 DEF Sound
<1>8. \A a \in r : a.id \in 1..n
  BY <1>4 DEF Sound
<1>9. CloseIf(s.last, l) = NoAttempt \/ CloseIf(s.last, l) \in r
  BY <1>1, CloseIfFields DEF Sound, Unfinished, Open, NoAttempt
<1> HIDE DEF t
<1>10. Sound(t, n)
  BY <1>2, <1>6, <1>7, <1>8, <1>9 DEF Sound
<1>11. Closing(s, t) = k
  <2>1. ASSUME NEW a \in s.recent
        PROVE  (Open(a) /\ \E b \in r : b.id = a.id /\ ~Open(b)) <=> Unfinished(a, l)
    <3>1. CloseIf(a, l) \in r /\ CloseIf(a, l).id = a.id
      BY <1>1, CloseIfFields
    <3>2. \A b \in r : b.id = a.id => b = CloseIf(a, l)
      BY <1>7, <3>1
    <3> QED
      BY <1>1, <3>1, <3>2, CloseIfFields DEF Unfinished
  <2> QED
    BY <1>6, <2>1 DEF Closing
<1>12. Total(t) = Total(s) + Cardinality(k)
  BY <1>3, <1>6 DEF Total, Sound, ChannelObjects, e
<1>13. ASSUME NEW a \in s.recent, NEW b \in r, a.id = b.id, ~Open(a) PROVE b = a
  <2>1. PICK d \in s.recent : b = CloseIf(d, l) /\ b.id = d.id
    BY <1>4
  <2>2. d = a
    BY <1>13, <2>1 DEF Sound
  <2> QED
    BY <1>1, <1>13, <2>1, <2>2, CloseIfFields DEF Unfinished
<1> QED
  BY <1>5, <1>6, <1>10, <1>11, <1>12, <1>13 DEF Counted

-----------------------------------------------------------------------------
(* What a status remembers of an event that was posted *)

Ids(s) == {a.id : a \in s.recent}

\* The attempt i that posted r is in the status, or the status has since been
\* filled with younger ones.
Remembers(s, r, i) ==
    \/ i = 0
    \/ \E a \in s.recent : a.id = i /\ r \in a.refs
    \/ Cardinality(Ids(s)) >= MaxRecent /\ \A j \in Ids(s) : j > i

\* There are as many identifiers as attempts.
LEMMA IdsCounted ==
    ASSUME NEW n \in Nat, NEW s, Sound(s, n)
    PROVE  /\ Ids(s) \subseteq 1..n
           /\ IsFiniteSet(Ids(s)) /\ Cardinality(Ids(s)) = Cardinality(s.recent)
<1> DEFINE f == [a \in s.recent |-> a.id]
<1>1. Ids(s) \subseteq 1..n
  BY DEF Ids, Sound
<1>2. f \in Bijection(s.recent, Ids(s))
  <2>1. f \in [s.recent -> Ids(s)]
    BY DEF Ids
  <2>2. \A a, b \in s.recent : f[a] = f[b] => a = b
    BY DEF Sound
  <2>3. \A j \in Ids(s) : \E a \in s.recent : f[a] = j
    BY DEF Ids
  <2> HIDE DEF f
  <2>4. f \in Injection(s.recent, Ids(s))
    BY <2>1, <2>2 DEF Injection, IsInjective
  <2>5. f \in Surjection(s.recent, Ids(s))
    BY <2>1, <2>3 DEF Surjection
  <2> QED
    BY <2>4, <2>5 DEF Bijection
<1>3. ExistsBijection(s.recent, Ids(s))
  BY <1>2 DEF ExistsBijection
<1> QED
  BY <1>1, <1>3, FS_Bijection DEF Sound

\* Closing attempts forgets nothing.
LEMMA SameMemory ==
    ASSUME NEW s, NEW t, Ids(t) = Ids(s), NEW r, NEW i,
           \A a \in s.recent : \E b \in t.recent : b.id = a.id /\ b.refs = a.refs,
           Remembers(s, r, i)
    PROVE  Remembers(t, r, i)
  BY DEF Remembers

\* Storing an attempt forgets another one only when the history is full.
LEMMA StoreMemory ==
    ASSUME NEW n \in Nat, n # 0, NEW s, Sound(s, n), NEW a \in Attempts, a.id = n,
           \A b \in s.recent : b.id = n => b.refs = a.refs,
           NEW r, NEW i \in Nat, i < n \/ \E b \in s.recent : b.id = n,
           Remembers(s, r, i)
    PROVE  Remembers(StoreAttempt(s, a), r, i)
<1> DEFINE t == StoreAttempt(s, a)
<1>1. /\ Sound(t, n) /\ t.last = a /\ a \in t.recent
      /\ \A b \in t.recent : b = a \/ (b \in s.recent /\ b.id # a.id)
      /\ (\E b \in s.recent : b.id = a.id) =>
            \A b \in s.recent : b.id # a.id => b \in t.recent
      /\ Appended(s, t, a)
  BY StoreAttemptSound
<1> HIDE DEF t
<1>2. CASE \E b \in s.recent : b.id = n
  <2>1. \A d \in s.recent : \E b \in t.recent : b.id = d.id /\ b.refs = d.refs
    BY <1>1, <1>2
  <2>2. Ids(t) = Ids(s)
    BY <1>1, <1>2, <2>1 DEF Ids
  <2>3. Remembers(t, r, i)
    BY <2>1, <2>2, SameMemory
  <2> QED
    BY <2>3 DEF t
<1>3. CASE ~\E b \in s.recent : b.id = n
  <2>1. /\ Ids(s) \subseteq 1..n /\ IsFiniteSet(Ids(s)) /\ Cardinality(Ids(s)) \in Nat
        /\ Ids(t) \subseteq 1..n /\ IsFiniteSet(Ids(t)) /\ Cardinality(Ids(t)) \in Nat
        /\ Cardinality(Ids(t)) = Cardinality(t.recent)
    BY <1>1, IdsCounted, FS_CardinalityType
  <2>2. i < n
    BY <1>3
  <2>3. CASE t.recent = s.recent \cup {a}
    <3>1. Ids(t) = Ids(s) \cup {n}
      BY <2>3 DEF Ids
    <3>2. Cardinality(Ids(s)) <= Cardinality(Ids(t))
      BY <2>1, <3>1, FS_Subset
    <3>3. Remembers(t, r, i)
      <4>1. CASE i = 0 \/ \E b \in s.recent : b.id = i /\ r \in b.refs
        BY <2>3, <4>1 DEF Remembers
      <4>2. CASE Cardinality(Ids(s)) >= MaxRecent /\ \A j \in Ids(s) : j > i
        <5>1. Cardinality(Ids(t)) >= MaxRecent
          BY <2>1, <3>2, <4>2, DispatcherAssumption
        <5>2. \A j \in Ids(t) : j > i
          BY <2>2, <3>1, <4>2
        <5> QED
          BY <5>1, <5>2 DEF Remembers
      <4> QED
        BY <4>1, <4>2 DEF Remembers
    <3> QED
      BY <3>3 DEF t
  <2>4. ASSUME Cardinality(t.recent) = MaxRecent, NEW o \in s.recent,
               t.recent = (s.recent \cup {a}) \ {o}, \A b \in t.recent : o.id < b.id
        PROVE  Remembers(t, r, i)
    <3>1. Cardinality(Ids(t)) >= MaxRecent
      BY <2>1, <2>4, DispatcherAssumption
    <3>2. \A j \in Ids(t) : o.id < j
      BY <2>4 DEF Ids
    <3>3. CASE i = 0
      BY <3>3 DEF Remembers
    <3>4. ASSUME NEW b \in s.recent, b.id = i, r \in b.refs
          PROVE  Remembers(t, r, i)
      <4>1. CASE b = o
        BY <3>1, <3>2, <3>4, <4>1 DEF Remembers
      <4>2. CASE b # o
        BY <2>4, <3>4, <4>2 DEF Remembers
      <4> QED
        BY <4>1, <4>2
    <3>5. CASE \A j \in Ids(s) : j > i
      <4>1. \A j \in Ids(t) : j > i
        <5>1. Ids(t) \subseteq Ids(s) \cup {n}
          BY <2>4 DEF Ids
        <5> QED
          BY <2>2, <3>5, <5>1
      <4> QED
        BY <3>1, <4>1 DEF Remembers
    <3> QED
      BY <3>3, <3>4, <3>5 DEF Remembers
  <2> QED
    BY <1>1, <1>3, <2>3, <2>4 DEF Appended, t
<1> QED
  BY <1>2, <1>3

\* Finishing an attempt that is in the status forgets nothing.
LEMMA FinishMemory ==
    ASSUME NEW n \in Nat, n # 0, NEW s, Sound(s, n), NEW a \in Attempts, a.id = n,
           NEW p \in {"Succeeded", "Failed"},
           s.last \in {a, [a EXCEPT !.phase = p]},
           NEW r, NEW i \in Nat, Remembers(s, r, i)
    PROVE  Remembers(Finished(s, a, p), r, i)
<1> DEFINE c == [a EXCEPT !.phase = p]
           u == StoreAttempt(s, c)
<1>1. c \in Attempts /\ c.id = n /\ c.refs = a.refs
  BY DEF Attempts, Phases
<1>2. s.last.id = n /\ s.last.refs = a.refs
  BY <1>1
<1> HIDE DEF c
<1>3. s.last \in s.recent
  BY <1>2 DEF Sound, NoAttempt
<1>4. \A b \in s.recent : b.id = n => b.refs = c.refs
  BY <1>1, <1>2, <1>3 DEF Sound
<1>5. Remembers(u, r, i)
  BY <1>1, <1>2, <1>3, <1>4, StoreMemory
<1>6. u \in ChannelObjects
  BY <1>1, StoreAttemptSound DEF Sound
<1> HIDE DEF u
<1>7. Finished(s, a, p) = s \/ Finished(s, a, p).recent = u.recent
  BY <1>6 DEF Finished, u, c, ChannelObjects
<1> QED
  BY <1>5, <1>7 DEF Remembers, Ids

\* Recovery forgets nothing.
LEMMA RecoverMemory ==
    ASSUME NEW n \in Nat, NEW s, Sound(s, n), NEW l, NEW r, NEW i, Remembers(s, r, i)
    PROVE  Remembers(Recovered(s, l), r, i)
<1> DEFINE t == Recovered(s, l)
<1>1. t.recent = {CloseIf(a, l) : a \in s.recent}
  BY DEF Recovered, Sound, ChannelObjects
<1>2. \A a \in s.recent : CloseIf(a, l).id = a.id /\ CloseIf(a, l).refs = a.refs
  BY DEF Sound, ChannelObjects, CloseIf, Attempts
<1> HIDE DEF t
<1>3. Ids(t) = Ids(s)
  BY <1>1, <1>2 DEF Ids
<1>4. \A a \in s.recent : \E b \in t.recent : b.id = a.id /\ b.refs = a.refs
  BY <1>1, <1>2
<1>5. Remembers(t, r, i)
  BY <1>3, <1>4, SameMemory
<1> QED
  BY <1>5 DEF t

\* An event that the status does not name was posted MaxRecent attempts ago.
LEMMA ForgottenIsOld ==
    ASSUME NEW n \in Nat, NEW s, Sound(s, n), NEW r, NEW i \in Nat, i # 0, i <= n,
           Remembers(s, r, i), r \notin Attempted(s)
    PROVE  n >= i + MaxRecent
<1>1. Cardinality(Ids(s)) >= MaxRecent /\ \A j \in Ids(s) : j > i
  BY DEF Remembers, Attempted
<1>2. Ids(s) \subseteq 1..n /\ IsFiniteSet(Ids(s)) /\ Cardinality(Ids(s)) \in Nat
  BY IdsCounted, FS_CardinalityType
<1>3. Ids(s) \subseteq (i + 1)..n
  BY <1>1, <1>2
<1>4. IsFiniteSet((i + 1)..n) /\ Cardinality((i + 1)..n) = n - i
  <2>1. i + 1 \in Int /\ n \in Int
    OBVIOUS
  <2>2. /\ IsFiniteSet((i + 1)..n)
        /\ Cardinality((i + 1)..n) = IF i + 1 > n THEN 0 ELSE n - (i + 1) + 1
    BY <2>1, FS_Interval
  <2> QED
    BY <2>2
<1>5. Cardinality(Ids(s)) <= n - i
  BY <1>3, <1>4, FS_Subset
<1> QED
  BY <1>1, <1>2, <1>5, DispatcherAssumption
-----------------------------------------------------------------------------
(* The inductive invariant *)

\* The conjuncts of TypeOK that are not about the channels.
Plain ==
    /\ quiet \subseteq Refs
    /\ events \subseteq Refs
    /\ caller \in [Refs -> {"pending", "recorded", "lost"}]
    /\ rec \in {Idle} \cup [ref : Refs, step : {"enqueue", "checkpoint"}]
    /\ queue \in Seq(Refs) /\ Len(queue) <= QueueSize
    /\ cacheCur \in [Channels -> BOOLEAN]
    /\ pc \in {"start", "recover", "loop", "collect", "channel", "group", "begin",
               "send", "finish"}
    /\ batch \subseteq Refs
    /\ jobs \in [Channels -> SUBSET Refs]
    /\ chan \in Channels \cup {NoChannel}
    /\ usable \in BOOLEAN
    /\ att \in Attempts
    /\ posts \in 0..MaxPosts
    /\ outcome \in {"none", "Succeeded", "Failed"}
    /\ recovering \subseteq Channels
    /\ cutoff \in Nat
    /\ lastId \in Nat
    /\ faults \in Nat
    /\ posted \in [Channels -> [Refs -> Nat]]
    /\ fresh \in [Channels -> BOOLEAN]

\* The status of every channel, and the copy of it, is a history.
Histories ==
    /\ stored \in [Channels -> ChannelObjects]
    /\ cache \in [Channels -> ChannelObjects]
    /\ \A c \in Channels :
          /\ Sound(stored[c], lastId)
          /\ Sound(cache[c], lastId)
          /\ cacheCur[c] => cache[c] = stored[c]

\* What the dispatcher has stored of the attempt that it is making.
OnAttempt ==
    /\ pc \in {"group", "begin", "send", "finish"} => chan \in Channels
    /\ pc \in {"begin", "send", "finish"} => att.id = lastId /\ lastId # 0 /\ Open(att)
    /\ pc = "begin" =>
          /\ \A b \in stored[chan].recent : b.id = lastId => b = att
          /\ \A r \in Refs : posted[chan][r] < lastId
    /\ pc = "send" => stored[chan].last = att /\ posts < MaxPosts
    /\ pc = "finish" =>
          /\ outcome \in {"Succeeded", "Failed"}
          /\ stored[chan].last \in {att, [att EXCEPT !.phase = outcome]}
    /\ pc \notin {"send", "finish"} => posts = 0

\* The status of a channel remembers what was posted to it.
Memory ==
    \A c \in Channels, r \in Refs :
        posted[c][r] <= lastId /\ Remembers(stored[c], r, posted[c][r])

\* What was posted in attempt i has room for a full history before attempt n.
Old(i, n) == i # 0 => n >= i + MaxRecent

\* What is left of a batch that was filtered by a current copy is old.
Unsent ==
    /\ pc \in {"channel", "group", "begin", "send", "finish"} =>
          \A c \in Channels : fresh[c] =>
              \A r \in jobs[c] : Old(posted[c][r], lastId)
    /\ pc \in {"begin", "send", "finish"} => att.refs \cap jobs[chan] = {}
    /\ pc \in {"begin", "send"} /\ posts = 0 /\ fresh[chan] =>
          \A r \in att.refs : Old(posted[chan][r], lastId - 1)

Inv == Plain /\ Histories /\ OnAttempt /\ Memory /\ Unsent
\* What a step makes of the counters of every channel.
Steady == \A c \in Channels : Counted(stored[c], stored'[c])

LEMMA NothingStored ==
    ASSUME Plain, Histories, stored' = stored
    PROVE  Steady
<1> SUFFICES ASSUME NEW c \in Channels PROVE Counted(stored[c], stored'[c])
  BY DEF Steady
<1>1. lastId \in Nat /\ Sound(stored[c], lastId)
  BY DEF Plain, Histories
<1> QED
  BY <1>1, SameCounted

\* A step that leaves the channels and the attempt alone.
LEMMA Aside ==
    ASSUME Inv, Plain',
           UNCHANGED <<channels, pc, jobs, chan, attempt, lastId, history>>
    PROVE  Inv' /\ Steady
<1>1. UNCHANGED <<stored, cache, cacheCur, pc, jobs, chan, att, posts, outcome, lastId,
                  posted, fresh>>
  BY DEF channels, attempt, history
<1>2. Histories'
  BY <1>1 DEF Inv, Histories
<1>3. OnAttempt' /\ Memory' /\ Unsent'
  BY <1>1 DEF Inv, OnAttempt, Memory, Unsent
<1>4. Steady
  BY <1>1, NothingStored DEF Inv
<1> QED
  BY <1>2, <1>3, <1>4 DEF Inv

Callers == [Refs -> {"pending", "recorded", "lost"}]

\* A caller learns that its event is recorded, or that it is not.
LEMMA CallerTypes ==
    ASSUME caller \in Callers, NEW r \in Refs
    PROVE  /\ RecordFails(r) => caller' \in Callers /\ rec' = Idle
           /\ [caller EXCEPT ![r] = "recorded"] \in Callers
<1>1. [caller EXCEPT ![r] = "recorded"] \in Callers
  BY DEF Callers
<1>2. ASSUME RecordFails(r) PROVE caller' \in Callers /\ rec' = Idle
  <2> DEFINE v == IF caller[r] = "recorded" \/ r \in Durable THEN caller[r] ELSE "lost"
  <2>1. caller' = [caller EXCEPT ![r] = v] /\ rec' = Idle
    BY <1>2 DEF RecordFails, Callers
  <2>2. v \in {"pending", "recorded", "lost"}
    BY DEF Callers
  <2> HIDE DEF v
  <2> QED
    BY <2>1, <2>2 DEF Callers
<1> QED
  BY <1>1, <1>2

\* The events recorded, retained and throttled are no concern of the channels.
LEMMA RecorderSteps ==
    ASSUME Inv,
           \/ \E r \in Refs : CreateEvent(r) \/ CleanupExpired(r)
           \/ EnqueueEvent \/ Checkpoint
           \/ \E k \in throttle : ExpireThrottle(k)
    PROVE  Inv' /\ Steady
<1>1. ASSUME NEW r \in Refs, CreateEvent(r)
      PROVE  Inv' /\ Steady
  <2>1. /\ quiet \subseteq Refs /\ events' \subseteq Refs /\ faults' \in Nat
        /\ caller' \in [Refs -> {"pending", "recorded", "lost"}]
        /\ rec' \in {Idle} \cup [ref : Refs, step : {"enqueue", "checkpoint"}]
    <3>1. caller \in Callers
      BY DEF Inv, Plain, Callers
    <3>2. events' \subseteq Refs /\ faults' \in Nat /\ quiet \subseteq Refs
      BY <1>1 DEF CreateEvent, Fault, Inv, Plain
    <3>3. caller' \in Callers /\ rec' \in {Idle, [ref |-> r, step |-> "enqueue"]}
      BY <1>1, <3>1, CallerTypes DEF CreateEvent
    <3> QED
      BY <3>2, <3>3 DEF Callers
  <2>2. Plain'
    BY <1>1, <2>1 DEF CreateEvent, Inv, Plain, channels, attempt, recovery, history
  <2> QED
    BY <1>1, <2>2, Aside DEF CreateEvent
<1>2. ASSUME NEW r \in Refs, CleanupExpired(r)
      PROVE  Inv' /\ Steady
  <2>1. Plain'
    BY <1>2 DEF CleanupExpired, Inv, Plain, channels, attempt, recovery, history
  <2> QED
    BY <1>2, <2>1, Aside DEF CleanupExpired
<1>3. CASE EnqueueEvent
  <2>1. rec \in [ref : Refs, step : {"enqueue", "checkpoint"}]
    BY <1>3 DEF EnqueueEvent, Inv, Plain, Idle
  <2>2. /\ caller' \in [Refs -> {"pending", "recorded", "lost"}]
        /\ rec' \in {Idle} \cup [ref : Refs, step : {"enqueue", "checkpoint"}]
    <3>1. caller \in Callers /\ rec.ref \in Refs
      BY <2>1 DEF Inv, Plain, Callers
    <3>2. [rec EXCEPT !.step = "checkpoint"] \in [ref : Refs, step : {"enqueue", "checkpoint"}]
      BY <2>1
    <3>3. caller' \in Callers
      BY <1>3, <3>1, CallerTypes DEF EnqueueEvent
    <3>4. rec' \in {Idle, [rec EXCEPT !.step = "checkpoint"]}
      BY <1>3, <3>1, CallerTypes DEF EnqueueEvent
    <3> QED
      BY <3>2, <3>3, <3>4 DEF Callers
  <2>3. queue' \in Seq(Refs) /\ Len(queue') <= QueueSize
    <3>1. queue \in Seq(Refs) /\ Len(queue) <= QueueSize /\ rec.ref \in Refs
      BY <2>1 DEF Inv, Plain
    <3>2. /\ Append(queue, rec.ref) \in Seq(Refs)
          /\ Len(Append(queue, rec.ref)) = Len(queue) + 1
      BY <3>1
    <3>3. \/ queue' = queue
          \/ queue' = Append(queue, rec.ref) /\ Len(queue) < QueueSize
      BY <1>3, Zenon DEF EnqueueEvent
    <3>4. Len(queue) \in Nat /\ QueueSize \in Nat
      BY <3>1, LenProperties, DispatcherAssumption
    <3> QED
      BY <3>1, <3>2, <3>3, <3>4
  <2>4. Plain'
    BY <1>3, <2>2, <2>3 DEF EnqueueEvent, Inv, Plain, channels, attempt, recovery, history
  <2> QED
    BY <1>3, <2>4, Aside DEF EnqueueEvent
<1>4. CASE Checkpoint
  <2>1. rec \in [ref : Refs, step : {"enqueue", "checkpoint"}]
    BY <1>4 DEF Checkpoint, Inv, Plain, Idle
  <2>2. /\ caller' \in [Refs -> {"pending", "recorded", "lost"}]
        /\ rec' = Idle /\ faults' \in Nat
    <3>1. caller \in Callers /\ rec.ref \in Refs
      BY <2>1 DEF Inv, Plain, Callers
    <3>2. caller' \in Callers
      BY <1>4, <3>1, CallerTypes DEF Checkpoint
    <3>3. rec' = Idle /\ faults' \in Nat
      BY <1>4 DEF Checkpoint, Fault, Inv, Plain
    <3> QED
      BY <3>2, <3>3 DEF Callers
  <2>3. Plain'
    BY <1>4, <2>2 DEF Checkpoint, Inv, Plain, channels, attempt, recovery, history
  <2> QED
    BY <1>4, <2>3, Aside DEF Checkpoint
<1>5. ASSUME NEW k \in throttle, ExpireThrottle(k)
      PROVE  Inv' /\ Steady
  <2>1. Plain'
    BY <1>5 DEF ExpireThrottle, Inv, Plain, recorder, channels, attempt, recovery, history
  <2> QED
    BY <1>5, <2>1, Aside DEF ExpireThrottle
<1> QED
  BY <1>1, <1>2, <1>3, <1>4, <1>5

\* A step that leaves the channels alone, and between batches.
LEMMA BetweenBatches ==
    ASSUME Inv, Plain', UNCHANGED <<channels, lastId, posted>>,
           pc' \in {"start", "recover", "loop", "collect"}, posts' = 0
    PROVE  Inv' /\ Steady
<1>1. UNCHANGED <<stored, cache, cacheCur, lastId, posted>>
  BY DEF channels
<1>2. Histories' /\ Memory'
  BY <1>1 DEF Inv, Histories, Memory
<1>3. OnAttempt' /\ Unsent'
  BY <1>1 DEF OnAttempt, Unsent
<1>4. Steady
  BY <1>1, NothingStored DEF Inv
<1> QED
  BY <1>2, <1>3, <1>4 DEF Inv

LEMMA LoopSteps ==
    ASSUME Inv,
           \/ StartRun \/ EndRecovery \/ Collect \/ EndBatch
           \/ \E limit \in 1..lastId : TickRecovery(limit)
    PROVE  Inv' /\ Steady
<1>1. CASE StartRun
  <2>1. Plain'
    BY <1>1 DEF StartRun, Fault, Inv, Plain, recorder, channels, attempt, recovery, history
  <2>2. pc' \in {"start", "recover", "loop", "collect"} /\ posts' = 0
    BY <1>1 DEF StartRun, Inv, OnAttempt, attempt
  <2> QED
    BY <1>1, <2>1, <2>2, BetweenBatches DEF StartRun, history
<1>2. CASE EndRecovery
  <2>1. Plain'
    BY <1>2 DEF EndRecovery, Inv, Plain, recorder, channels, attempt, recovery, history
  <2>2. pc' \in {"start", "recover", "loop", "collect"} /\ posts' = 0
    BY <1>2 DEF EndRecovery, Inv, OnAttempt, attempt
  <2> QED
    BY <1>2, <2>1, <2>2, BetweenBatches DEF EndRecovery, history
<1>3. CASE Collect
  <2>1. queue' \in Seq(Refs) /\ Len(queue') <= QueueSize /\ batch' \subseteq Refs
    <3>1. queue \in Seq(Refs) /\ Len(queue) <= QueueSize /\ queue # <<>>
      BY <1>3 DEF Collect, Inv, Plain
    <3>2. /\ Head(queue) \in Refs /\ Tail(queue) \in Seq(Refs)
          /\ Len(Tail(queue)) = Len(queue) - 1 /\ Len(queue) \in Nat
      BY <3>1, HeadTailProperties, LenProperties
    <3> QED
      BY <1>3, <3>1, <3>2, DispatcherAssumption DEF Collect, Inv, Plain
  <2>2. Plain'
    BY <1>3, <2>1 DEF Collect, Inv, Plain, recorder, channels, attempt, recovery, history
  <2>3. pc' \in {"start", "recover", "loop", "collect"} /\ posts' = 0
    BY <1>3 DEF Collect, Inv, OnAttempt, attempt
  <2> QED
    BY <1>3, <2>2, <2>3, BetweenBatches DEF Collect, history
<1>4. CASE EndBatch
  <2>1. Plain'
    BY <1>4 DEF EndBatch, Inv, Plain, recorder, channels, attempt, recovery, history
  <2>2. pc' \in {"start", "recover", "loop", "collect"} /\ posts' = 0
    BY <1>4 DEF EndBatch, Inv, OnAttempt, attempt
  <2> QED
    BY <1>4, <2>1, <2>2, BetweenBatches DEF EndBatch, history
<1>5. ASSUME NEW limit \in 1..lastId, TickRecovery(limit)
      PROVE  Inv' /\ Steady
  <2>1. limit \in Nat
    BY DEF Inv, Plain
  <2>2. recovering' \subseteq Channels
    BY <1>5 DEF TickRecovery
  <2>3. Plain'
    BY <1>5, <2>1, <2>2 DEF TickRecovery, Inv, Plain, recorder, channels, attempt,
                            recovery, history
  <2>4. pc' \in {"start", "recover", "loop", "collect"} /\ posts' = 0
    BY <1>5 DEF TickRecovery, Inv, OnAttempt, attempt
  <2> QED
    BY <1>5, <2>3, <2>4, BetweenBatches DEF TickRecovery, history
<1> QED
  BY <1>1, <1>2, <1>3, <1>4, <1>5
LEMMA SoundMonotone ==
    ASSUME NEW n \in Nat, NEW m \in Nat, n <= m, NEW s, Sound(s, n)
    PROVE  Sound(s, m)
  BY DEF Sound

LEMMA DispatchBatchStep ==
    ASSUME Inv, DispatchBatch
    PROVE  Inv' /\ Steady
<1>1. UNCHANGED <<stored, cache, cacheCur, chan, att, posts, outcome, lastId, posted>>
  BY DEF DispatchBatch, channels, attempt
<1>2. /\ batch' \subseteq Refs /\ jobs' \in [Channels -> SUBSET Refs] /\ faults' \in Nat
      /\ fresh' \in [Channels -> BOOLEAN]
  BY DEF DispatchBatch, Fault, Wanted, Inv, Plain
<1>3. Plain'
  BY <1>1, <1>2 DEF DispatchBatch, Inv, Plain, recorder, recovery
<1>4. CASE pc' = "loop"
  <2>1. posts' = 0
    BY <1>1 DEF DispatchBatch, Inv, OnAttempt
  <2> QED
    BY <1>1, <1>3, <1>4, <2>1, BetweenBatches DEF channels
<1>5. CASE pc' # "loop"
  <2>1. /\ pc' = "channel" /\ fresh' = cacheCur
        /\ jobs' = [c \in Channels |-> Wanted(cache[c])]
    BY <1>5 DEF DispatchBatch
  <2>2. Histories' /\ Memory'
    BY <1>1 DEF Inv, Histories, Memory
  <2>3. OnAttempt'
    BY <1>1, <2>1 DEF DispatchBatch, Inv, OnAttempt
  <2>4. ASSUME NEW c \in Channels, fresh'[c], NEW r \in jobs'[c]
        PROVE  Old(posted[c][r], lastId)
    <3>1. /\ cacheCur[c] /\ cache[c] = stored[c] /\ Sound(stored[c], lastId)
          /\ lastId \in Nat
      BY <2>1, <2>4 DEF Inv, Histories, Plain
    <3>2. r \in Refs /\ r \notin Attempted(stored[c])
      BY <2>1, <2>4, <3>1 DEF Wanted, Inv, Plain
    <3>3. /\ posted[c][r] \in Nat /\ posted[c][r] <= lastId
          /\ Remembers(stored[c], r, posted[c][r])
      BY <3>2 DEF Inv, Plain, Memory
    <3> QED
      BY <3>1, <3>2, <3>3, ForgottenIsOld DEF Old
  <2>5. Unsent'
    BY <1>1, <2>1, <2>4 DEF Unsent
  <2>6. Steady
    BY <1>1, NothingStored DEF Inv
  <2> QED
    BY <1>3, <2>2, <2>3, <2>5, <2>6 DEF Inv
<1> QED
  BY <1>4, <1>5

\* Which channel is served changes nothing of what is stored or to be sent.
LEMMA ChannelSteps ==
    ASSUME Inv, (\E c \in Channels : ServeChannel(c)) \/ EndChannel
    PROVE  Inv' /\ Steady
<1>1. UNCHANGED <<stored, cache, cacheCur, att, posts, outcome, lastId, posted, fresh,
                  jobs>>
  BY DEF ServeChannel, EndChannel, channels, attempt, history
<1>2. /\ pc \in {"channel", "group"} /\ pc' \in {"channel", "group"}
      /\ pc' = "group" => chan' \in Channels
      /\ chan' \in Channels \cup {NoChannel} /\ usable' \in BOOLEAN /\ faults' \in Nat
  <2>1. ASSUME NEW c \in Channels, ServeChannel(c)
        PROVE  /\ pc = "channel" /\ pc' = "group" /\ chan' = c
               /\ usable' \in {TRUE, FALSE} /\ faults' \in Nat
    <3>1. pc = "channel" /\ pc' = "group" /\ chan' = c /\ usable' \in {TRUE, FALSE}
      BY <2>1, Zenon DEF ServeChannel
    <3>2. faults' \in Nat
      <4>1. faults' = faults \/ (faults > 0 /\ faults' = faults - 1)
        BY <2>1, Zenon DEF ServeChannel, Fault
      <4> QED
        BY <4>1 DEF Inv, Plain
    <3> QED
      BY <3>1, <3>2
  <2>2. ASSUME EndChannel
        PROVE  /\ pc = "group" /\ pc' = "channel" /\ chan' = NoChannel
               /\ usable' \in {TRUE, FALSE} /\ faults' \in Nat
    BY <2>2 DEF EndChannel, Inv, Plain
  <2> QED
    BY <2>1, <2>2
<1>3. UNCHANGED <<recorder, queue, batch, recovery>>
  BY DEF ServeChannel, EndChannel
<1>4. Plain'
  BY <1>1, <1>2, <1>3 DEF Inv, Plain, recorder, recovery
<1>5. Histories' /\ Memory'
  BY <1>1 DEF Inv, Histories, Memory
<1>6. OnAttempt'
  BY <1>1, <1>2 DEF Inv, OnAttempt
<1>7. Unsent'
  BY <1>1, <1>2 DEF Inv, Unsent
<1>8. Steady
  BY <1>1, NothingStored DEF Inv
<1> QED
  BY <1>4, <1>5, <1>6, <1>7, <1>8 DEF Inv

LEMMA TakeGroupStep ==
    ASSUME Inv, TakeGroup
    PROVE  Inv' /\ Steady
<1>1. /\ UNCHANGED <<stored, cache, cacheCur, chan, usable, posts, outcome, posted, fresh>>
      /\ UNCHANGED <<recorder, queue, batch, recovery, faults>>
      /\ pc = "group" /\ chan \in Channels /\ posts = 0
  BY DEF TakeGroup, channels, history, Inv, OnAttempt
<1>2. PICK g \in Groups(jobs[chan]) :
          /\ jobs' = [jobs EXCEPT ![chan] = @ \ g]
          /\ IF usable /\ ThrottleKey(chan, g) \in throttle
             THEN UNCHANGED <<pc, att, lastId>>
             ELSE /\ lastId' = lastId + 1
                  /\ att' = [id |-> lastId + 1, refs |-> g, phase |-> "InProgress"]
                  /\ pc' = "begin"
  BY DEF TakeGroup
<1>3. g \subseteq jobs[chan] /\ g \subseteq Refs /\ lastId \in Nat
  BY <1>1 DEF Groups, Inv, Plain
<1>4. /\ jobs' \in [Channels -> SUBSET Refs]
      /\ jobs'[chan] = jobs[chan] \ g
      /\ \A c \in Channels : jobs'[c] \subseteq jobs[c]
  BY <1>1, <1>2 DEF Inv, Plain
<1>5. Steady
  BY <1>1, NothingStored DEF Inv
<1>6. CASE UNCHANGED <<pc, att, lastId>>
  <2>1. Plain'
    BY <1>1, <1>4, <1>6 DEF Inv, Plain, recorder, recovery
  <2>2. Histories' /\ Memory'
    BY <1>1, <1>6 DEF Inv, Histories, Memory
  <2>3. OnAttempt' /\ Unsent'
    BY <1>1, <1>4, <1>6 DEF Inv, OnAttempt, Unsent
  <2> QED
    BY <1>5, <2>1, <2>2, <2>3 DEF Inv
<1>7. CASE /\ lastId' = lastId + 1
           /\ att' = [id |-> lastId + 1, refs |-> g, phase |-> "InProgress"]
           /\ pc' = "begin"
  <2>1. att' \in Attempts /\ lastId' \in Nat /\ Open(att') /\ att'.id = lastId' /\ att'.refs = g
    BY <1>3, <1>7 DEF Attempts, Phases, Open
  <2>2. Plain'
    BY <1>1, <1>4, <1>7, <2>1 DEF Inv, Plain, recorder, recovery
  <2>3. Histories'
    <3>1. lastId <= lastId'
      BY <1>3, <1>7
    <3>2. \A c \in Channels : Sound(stored[c], lastId') /\ Sound(cache[c], lastId')
      BY <1>3, <2>1, <3>1, SoundMonotone DEF Inv, Histories
    <3> QED
      BY <1>1, <3>2 DEF Inv, Histories
  <2>4. \A c \in Channels, r \in Refs :
           posted[c][r] \in Nat /\ posted[c][r] <= lastId /\ posted[c][r] < lastId'
    BY <1>3, <1>7 DEF Inv, Memory, Plain
  <2>5. Memory'
    BY <1>1, <1>3, <1>7, <2>4 DEF Inv, Memory
  <2>6. \A b \in stored[chan].recent : b.id # lastId'
    BY <1>1, <1>3, <1>7 DEF Inv, Histories, Sound
  <2>7. OnAttempt'
    BY <1>1, <1>3, <1>7, <2>1, <2>4, <2>6 DEF OnAttempt
  <2>8. ASSUME NEW c \in Channels, fresh[c], NEW r \in jobs[c]
        PROVE  Old(posted[c][r], lastId) /\ Old(posted[c][r], lastId')
    <3>1. Old(posted[c][r], lastId)
      BY <1>1, <2>8 DEF Inv, Unsent
    <3>2. posted[c][r] \in Nat
      BY <2>4, <2>8 DEF Inv, Plain
    <3> QED
      BY <1>3, <1>7, <3>1, <3>2, DispatcherAssumption DEF Old
  <2>9. Unsent'
    <3>1. lastId' - 1 = lastId
      BY <1>3, <1>7
    <3>2. \A c \in Channels : fresh[c] => \A r \in jobs'[c] : Old(posted[c][r], lastId')
      BY <1>4, <2>8
    <3>3. att'.refs \cap jobs'[chan] = {}
      BY <1>4, <2>1
    <3>4. fresh[chan] => \A r \in att'.refs : Old(posted[chan][r], lastId' - 1)
      BY <1>1, <1>3, <2>1, <2>8, <3>1
    <3> QED
      BY <1>1, <3>2, <3>3, <3>4 DEF Unsent
  <2> QED
    BY <1>5, <2>2, <2>3, <2>5, <2>7, <2>9 DEF Inv
<1> QED
  BY <1>2, <1>6, <1>7

LEMMA PostWebhookStep ==
    ASSUME Inv, PostWebhook
    PROVE  Inv' /\ Steady
<1>1. /\ UNCHANGED <<stored, cache, cacheCur, chan, usable, att, jobs, fresh, lastId, faults>>
      /\ UNCHANGED <<recorder, queue, batch, recovery>>
      /\ pc = "send" /\ chan \in Channels /\ posts < MaxPosts /\ posts \in Nat
      /\ lastId \in Nat /\ att.id = lastId /\ lastId # 0 /\ Open(att) /\ att \in Attempts
      /\ stored[chan].last = att
  BY DispatcherAssumption DEF PostWebhook, channels, Inv, OnAttempt, Plain
<1>2. /\ posts' = posts + 1 /\ posts' \in 0..MaxPosts
      /\ \/ pc' = "finish" /\ outcome' \in {"Succeeded", "Failed"}
         \/ pc' = "send" /\ outcome' = outcome /\ posts' < MaxPosts
  BY <1>1, DispatcherAssumption DEF PostWebhook
<1> DEFINE p == [r \in Refs |-> IF r \in att.refs THEN att.id ELSE posted[chan][r]]
<1>3. posted' = [posted EXCEPT ![chan] = p]
  BY <1>1 DEF PostWebhook, Inv, Plain
<1>4. p \in [Refs -> Nat]
  BY <1>1 DEF Inv, Plain
<1>5. /\ posted' \in [Channels -> [Refs -> Nat]]
      /\ \A r \in Refs : posted'[chan][r] = IF r \in att.refs THEN lastId ELSE posted[chan][r]
      /\ \A c \in Channels : c # chan => posted'[c] = posted[c]
  BY <1>1, <1>3, <1>4 DEF Inv, Plain
<1> HIDE DEF p
<1>6. Plain'
  BY <1>1, <1>2, <1>5 DEF Inv, Plain, recorder, recovery
<1>7. Histories'
  BY <1>1 DEF Inv, Histories
<1>8. OnAttempt'
  BY <1>1, <1>2 DEF Inv, OnAttempt
<1>9. Memory'
  <2>1. att \in stored[chan].recent
    BY <1>1 DEF Inv, Histories, Sound, NoAttempt
  <2>2. ASSUME NEW c \in Channels, NEW r \in Refs
        PROVE  posted'[c][r] <= lastId /\ Remembers(stored[c], r, posted'[c][r])
    <3>1. posted[c][r] <= lastId /\ Remembers(stored[c], r, posted[c][r])
      BY DEF Inv, Memory
    <3>2. CASE c = chan /\ r \in att.refs
      <4>1. posted'[c][r] = lastId
        BY <1>5, <3>2
      <4>2. Remembers(stored[c], r, lastId)
        BY <1>1, <2>1, <3>2 DEF Remembers
      <4> QED
        BY <1>1, <4>1, <4>2
    <3>3. CASE ~(c = chan /\ r \in att.refs)
      BY <1>5, <3>1, <3>3
    <3> QED
      BY <3>2, <3>3
  <2> QED
    BY <1>1, <2>2 DEF Memory
<1>10. Unsent'
  <2>1. att.refs \cap jobs[chan] = {} /\ jobs \in [Channels -> SUBSET Refs]
    BY <1>1 DEF Inv, Unsent, Plain
  <2>2. \A c \in Channels : \A r \in jobs[c] : posted'[c][r] = posted[c][r]
    BY <1>5, <2>1
  <2>3. \A c \in Channels : fresh[c] => \A r \in jobs[c] : Old(posted[c][r], lastId)
    BY <1>1 DEF Inv, Unsent
  <2>4. posts' # 0
    BY <1>1, <1>2
  <2> QED
    BY <1>1, <1>2, <2>1, <2>2, <2>3, <2>4 DEF Unsent
<1>11. Steady
  BY <1>1, NothingStored DEF Inv
<1> QED
  BY <1>6, <1>7, <1>8, <1>9, <1>10, <1>11 DEF Inv

\* The informer catches up, or the owner changes the spec of a channel.
LEMMA CacheSteps ==
    ASSUME Inv, NEW c \in Channels, SyncCache(c) \/ EditChannel(c)
    PROVE  Inv' /\ Steady
<1>1. /\ UNCHANGED <<pc, jobs, chan, usable, att, posts, outcome, lastId, posted, fresh>>
      /\ UNCHANGED <<recorder, queue, batch, recovery>>
      /\ lastId \in Nat /\ faults' \in Nat
  BY DEF SyncCache, EditChannel, attempt, history, Fault, Inv, Plain
<1>2. cacheCur' \in [Channels -> BOOLEAN]
  BY DEF SyncCache, EditChannel, Inv, Plain
<1>3. Plain'
  BY <1>1, <1>2 DEF Inv, Plain, recorder, recovery
<1>4. /\ Histories'
      /\ \A d \in Channels : /\ stored'[d].recent = stored[d].recent
                             /\ stored'[d].last = stored[d].last
                             /\ stored'[d].sent = stored[d].sent
                             /\ stored'[d].errors = stored[d].errors
  <2>1. CASE SyncCache(c)
    BY <1>1, <2>1 DEF SyncCache, Inv, Histories, Plain
  <2>2. CASE EditChannel(c)
    <3>1. PICK w \in Filters : stored' = [stored EXCEPT ![c].wants = w]
      BY <2>2 DEF EditChannel
    <3> DEFINE t == [stored[c] EXCEPT !.wants = w]
    <3>2. stored[c] \in ChannelObjects /\ Sound(stored[c], lastId)
      BY DEF Inv, Histories
    <3>3. /\ t \in ChannelObjects /\ t.recent = stored[c].recent
          /\ t.last = stored[c].last /\ t.sent = stored[c].sent
          /\ t.errors = stored[c].errors
      BY <3>2 DEF ChannelObjects
    <3>4. stored' = [stored EXCEPT ![c] = t]
      BY <3>1 DEF Inv, Histories
    <3> HIDE DEF t
    <3>5. Sound(t, lastId)
      BY <3>2, <3>3 DEF Sound
    <3>6. UNCHANGED cache /\ cacheCur' = [cacheCur EXCEPT ![c] = FALSE]
      BY <2>2 DEF EditChannel
    <3>7. stored' \in [Channels -> ChannelObjects]
      BY <3>3, <3>4 DEF Inv, Histories
    <3>8. \A d \in Channels : stored'[d] = IF d = c THEN t ELSE stored[d]
      BY <3>4 DEF Inv, Histories
    <3>9. \A d \in Channels : cacheCur'[d] => d # c /\ cacheCur[d]
      BY <3>6 DEF Inv, Plain
    <3>10. Histories'
      BY <1>1, <3>5, <3>6, <3>7, <3>8, <3>9 DEF Inv, Histories
    <3> QED
      BY <3>3, <3>8, <3>10
  <2> QED
    BY <2>1, <2>2
<1>5. OnAttempt'
  BY <1>1, <1>4 DEF Inv, OnAttempt
<1>6. Memory'
  BY <1>1, <1>4 DEF Inv, Memory, Remembers, Ids
<1>7. Unsent'
  BY <1>1 DEF Inv, Unsent
<1>8. Steady
  <2> SUFFICES ASSUME NEW d \in Channels PROVE Counted(stored[d], stored'[d])
    BY DEF Steady
  <2>1. Sound(stored[d], lastId)
    BY DEF Inv, Histories
  <2> QED
    BY <1>1, <1>4, <2>1, SameCounted
<1> QED
  BY <1>3, <1>4, <1>5, <1>6, <1>7, <1>8 DEF Inv

LEMMA CrashStep ==
    ASSUME Inv, Crash
    PROVE  Inv' /\ Steady
<1>1. UNCHANGED <<stored, lastId, posted, quiet, events>> /\ cache' = stored
  BY DEF Crash
<1>2. caller' \in [Refs -> {"pending", "recorded", "lost"}] /\ faults' \in Nat
  BY DEF Crash, Fault, Inv, Plain
<1>3. queue' = <<>> /\ queue' \in Seq(Refs) /\ Len(queue') <= QueueSize
  BY DispatcherAssumption DEF Crash
<1>4. att' \in Attempts /\ posts' = 0 /\ posts' \in 0..MaxPosts
  BY DispatcherAssumption DEF Crash, NoAttempt, Attempts, Phases
<1>5. Plain'
  BY <1>1, <1>2, <1>3, <1>4 DEF Crash, Inv, Plain
<1>6. Histories' /\ Memory'
  BY <1>1 DEF Inv, Histories, Memory
<1>7. OnAttempt' /\ Unsent'
  BY <1>4 DEF Crash, OnAttempt, Unsent
<1>8. Steady
  BY <1>1, NothingStored DEF Inv
<1> QED
  BY <1>5, <1>6, <1>7, <1>8 DEF Inv

-----------------------------------------------------------------------------
(* The steps that write a status *)

Update(c, s) == UpdateSucceeds(c, s) \/ UpdateRetried(c, s) \/ UpdateGivesUp(c, s)

\* What an update may do: nothing, or to put s in the place of a status that the
\* cached copy was equal to.
LEMMA UpdateEffect ==
    ASSUME Plain, Histories, NEW c \in Channels, NEW s, Update(c, s),
           lastId' = lastId, Sound(s, lastId), Counted(cache[c], s)
    PROVE  /\ Histories' /\ Steady
           /\ cacheCur' \in [Channels -> BOOLEAN] /\ faults' \in Nat
           /\ \A d \in Channels : d # c => stored'[d] = stored[d]
           /\ stored'[c] = stored[c] \/ (cacheCur[c] /\ stored'[c] = s)
           /\ Write(c, s) => stored'[c] = s /\ cache[c] = stored[c]
<1>1. faults' \in Nat
  BY DEF Update, UpdateSucceeds, UpdateRetried, UpdateGivesUp, Fault, Plain
<1>2. (UNCHANGED channels) \/ Write(c, s)
  BY DEF Update, UpdateSucceeds, UpdateRetried, UpdateGivesUp
<1>3. CASE Write(c, s)
  <2>1. cacheCur[c] /\ cache[c] = stored[c] /\ UNCHANGED cache
    BY <1>3 DEF Write, Histories
  <2>2. s \in ChannelObjects
    BY DEF Sound
  <2>3. /\ stored' \in [Channels -> ChannelObjects]
        /\ \A d \in Channels : stored'[d] = IF d = c THEN s ELSE stored[d]
    BY <1>3, <2>2 DEF Write, Histories
  <2>4. /\ cacheCur' \in [Channels -> BOOLEAN]
        /\ \A d \in Channels : cacheCur'[d] = IF d = c THEN s = stored[c] ELSE cacheCur[d]
    BY <1>3 DEF Write, Plain
  <2>5. Histories'
    BY <2>1, <2>3, <2>4 DEF Histories
  <2>6. Steady
    <3> SUFFICES ASSUME NEW d \in Channels PROVE Counted(stored[d], stored'[d])
      BY DEF Steady
    <3>1. CASE d = c
      BY <2>1, <2>3, <3>1
    <3>2. CASE d # c
      <4>1. lastId \in Nat /\ Sound(stored[d], lastId) /\ stored'[d] = stored[d]
        BY <2>3, <3>2 DEF Histories, Plain
      <4> QED
        BY <4>1, SameCounted
    <3> QED
      BY <3>1, <3>2
  <2> QED
    BY <1>1, <2>1, <2>3, <2>4, <2>5, <2>6
<1>4. CASE ~Write(c, s)
  <2>1. UNCHANGED <<stored, cache, cacheCur>>
    BY <1>2, <1>4 DEF channels
  <2>2. Histories'
    BY <2>1 DEF Histories
  <2>3. Steady
    BY <2>1, NothingStored
  <2> QED
    BY <1>1, <1>4, <2>1, <2>2, <2>3 DEF Plain
<1> QED
  BY <1>3, <1>4

\* A copy that is out of date is not written.
LEMMA StaleUpdate ==
    ASSUME Plain, Histories, NEW c \in Channels, NEW s, Update(c, s), ~cacheCur[c],
           lastId' = lastId
    PROVE  /\ Histories' /\ Steady /\ stored' = stored /\ ~Write(c, s)
           /\ cacheCur' \in [Channels -> BOOLEAN] /\ faults' \in Nat
<1>1. ~Write(c, s)
  BY DEF Write
<1>2. UNCHANGED <<stored, cache, cacheCur>> /\ faults' \in Nat
  BY <1>1 DEF Update, UpdateSucceeds, UpdateRetried, UpdateGivesUp, Fault, channels, Plain
<1>3. Histories'
  BY <1>2 DEF Histories
<1>4. Steady
  BY <1>2, NothingStored
<1> QED
  BY <1>1, <1>2, <1>3, <1>4 DEF Plain

LEMMA RecoverChannelStep ==
    ASSUME Inv, NEW c \in Channels, RecoverChannel(c)
    PROVE  Inv' /\ Steady
<1> DEFINE s == Recovered(cache[c], cutoff)
<1>1. /\ pc = "recover" /\ UNCHANGED <<pc, jobs, chan, usable, att, posts, outcome,
                                      cutoff, lastId, posted, fresh>>
      /\ UNCHANGED <<recorder, queue, batch>>
  BY DEF RecoverChannel, attempt, history
<1>2. Update(c, s) /\ recovering' \in {recovering, recovering \ {c}}
  BY DEF RecoverChannel, Update
<1>3. lastId \in Nat /\ cutoff \in Nat /\ Sound(cache[c], lastId)
  BY DEF Inv, Plain, Histories
<1>4. Sound(s, lastId) /\ Counted(cache[c], s)
  BY <1>3, RecoverSound
<1> HIDE DEF s
<1>5. /\ Histories' /\ Steady
      /\ cacheCur' \in [Channels -> BOOLEAN] /\ faults' \in Nat
      /\ \A d \in Channels : d # c => stored'[d] = stored[d]
      /\ stored'[c] = stored[c] \/ (cacheCur[c] /\ stored'[c] = s)
  BY <1>1, <1>2, <1>4, UpdateEffect DEF Inv
<1>6. Plain'
  BY <1>1, <1>2, <1>5 DEF Inv, Plain, recorder
<1>7. OnAttempt' /\ Unsent'
  BY <1>1 DEF Inv, OnAttempt, Unsent
<1>8. Memory'
  <2>1. ASSUME NEW d \in Channels, NEW r \in Refs
        PROVE  posted[d][r] <= lastId /\ Remembers(stored'[d], r, posted[d][r])
    <3>1. posted[d][r] <= lastId /\ Remembers(stored[d], r, posted[d][r])
      BY DEF Inv, Memory
    <3>2. CASE d = c /\ cacheCur[c] /\ stored'[c] = s
      <4>1. cache[c] = stored[c]
        BY <3>2 DEF Inv, Histories
      <4> QED
        BY <1>3, <3>1, <3>2, <4>1, RecoverMemory DEF s
    <3> QED
      BY <1>5, <3>1, <3>2
  <2> QED
    BY <1>1, <2>1 DEF Memory
<1> QED
  BY <1>5, <1>6, <1>7, <1>8 DEF Inv

\* Nothing is left of an attempt that was given up or is finished.
LEMMA NextGroupStep ==
    ASSUME Inv, pc \in {"begin", "finish"}, NextGroup, Histories', Memory', Steady,
           cacheCur' \in [Channels -> BOOLEAN], faults' \in Nat,
           UNCHANGED <<recorder, queue, batch, jobs, chan, usable, recovery, lastId, history>>
    PROVE  Inv' /\ Steady
<1>1. UNCHANGED <<posted, fresh, jobs, chan, lastId>>
  BY DEF history
<1>2. /\ pc' = "group" /\ posts' = 0 /\ posts' \in 0..MaxPosts /\ outcome' = "none"
      /\ att' \in Attempts
  BY DispatcherAssumption DEF NextGroup, NoAttempt, Attempts, Phases
<1>3. Plain'
  BY <1>1, <1>2 DEF Inv, Plain, recorder, recovery
<1>4. OnAttempt'
  BY <1>1, <1>2 DEF Inv, OnAttempt
<1>5. Unsent'
  BY <1>1, <1>2 DEF Inv, Unsent
<1> QED
  BY <1>3, <1>4, <1>5 DEF Inv

LEMMA BeginAttemptStep ==
    ASSUME Inv, BeginAttempt
    PROVE  Inv' /\ Steady
<1> DEFINE s == StoreAttempt(cache[chan], att)
<1>1. /\ pc = "begin" /\ UNCHANGED <<jobs, chan, usable, lastId, posted, fresh>>
      /\ UNCHANGED <<recorder, queue, batch, recovery, history>>
      /\ chan \in Channels /\ posts = 0
      /\ lastId \in Nat /\ lastId # 0 /\ att.id = lastId /\ Open(att) /\ att \in Attempts
  BY DEF BeginAttempt, history, Inv, OnAttempt, Plain
<1>2. Sound(cache[chan], lastId)
  BY <1>1 DEF Inv, Histories
<1>3. /\ Sound(s, lastId) /\ s.last = att
      /\ \A b \in s.recent : b = att \/ (b \in cache[chan].recent /\ b.id # lastId)
  BY <1>1, <1>2, StoreAttemptSound
<1>4. ASSUME cacheCur[chan]
      PROVE  /\ cache[chan] = stored[chan]
             /\ Counted(cache[chan], s)
             /\ \A r \in Refs : Remembers(s, r, posted[chan][r])
  <2>1. /\ cache[chan] = stored[chan]
        /\ \A b \in cache[chan].recent : b.id = lastId => b = att
        /\ \A r \in Refs : posted[chan][r] \in Nat /\ posted[chan][r] < lastId
    BY <1>1, <1>4 DEF Inv, Histories, OnAttempt, Plain
  <2>2. Counted(cache[chan], s)
    BY <1>1, <1>2, <2>1, BeginCounted
  <2>3. \A r \in Refs : Remembers(cache[chan], r, posted[chan][r])
    BY <1>1, <2>1 DEF Inv, Memory
  <2>4. \A r \in Refs : Remembers(s, r, posted[chan][r])
    BY <1>1, <1>2, <2>1, <2>3, StoreMemory
  <2> QED
    BY <2>1, <2>2, <2>4
<1> HIDE DEF s
<1>5. \/ /\ UpdateSucceeds(chan, s)
         /\ \/ pc' = "send" /\ UNCHANGED attempt
            \/ pc' = "finish" /\ outcome' = "Failed" /\ UNCHANGED <<att, posts>>
      \/ UpdateRetried(chan, s) /\ UNCHANGED <<pc, attempt>>
      \/ UpdateGivesUp(chan, s) /\ NextGroup
  BY DEF BeginAttempt, s
<1>6. /\ Histories' /\ Steady
      /\ cacheCur' \in [Channels -> BOOLEAN] /\ faults' \in Nat
      /\ \A d \in Channels : d # chan => stored'[d] = stored[d]
      /\ stored'[chan] = stored[chan] \/ (cacheCur[chan] /\ stored'[chan] = s)
      /\ Write(chan, s) => stored'[chan] = s /\ cache[chan] = stored[chan]
  <2>1. CASE cacheCur[chan]
    <3>1. Update(chan, s)
      BY <1>5 DEF Update
    <3> QED
      BY <1>1, <1>3, <1>4, <2>1, <3>1, UpdateEffect DEF Inv
  <2>2. CASE ~cacheCur[chan]
    BY <1>1, <1>5, <2>2, StaleUpdate DEF Inv, Update
  <2> QED
    BY <2>1, <2>2
<1>7. Memory'
  <2>1. ASSUME NEW d \in Channels, NEW r \in Refs
        PROVE  posted[d][r] <= lastId /\ Remembers(stored'[d], r, posted[d][r])
    BY <1>4, <1>6 DEF Inv, Memory
  <2> QED
    BY <1>1, <2>1 DEF Memory
<1>8. CASE UpdateGivesUp(chan, s) /\ NextGroup
  BY <1>1, <1>6, <1>7, <1>8, NextGroupStep
<1>9. CASE UpdateRetried(chan, s) /\ UNCHANGED <<pc, attempt>>
  <2>1. UNCHANGED <<pc, att, posts, outcome>> /\ stored'[chan] = s /\ cache[chan] = stored[chan]
    BY <1>6, <1>9 DEF attempt, UpdateRetried
  <2>2. Plain'
    BY <1>1, <1>6, <2>1 DEF Inv, Plain, recorder, recovery
  <2>3. OnAttempt'
    BY <1>1, <1>3, <2>1 DEF Inv, OnAttempt
  <2>4. Unsent'
    BY <1>1, <2>1 DEF Inv, Unsent
  <2> QED
    BY <1>6, <1>7, <2>2, <2>3, <2>4 DEF Inv
<1>10. CASE /\ UpdateSucceeds(chan, s)
            /\ \/ pc' = "send" /\ UNCHANGED attempt
               \/ pc' = "finish" /\ outcome' = "Failed" /\ UNCHANGED <<att, posts>>
  <2>1. /\ UNCHANGED <<att, posts>> /\ stored'[chan] = s
        /\ \/ pc' = "send" /\ outcome' = outcome
           \/ pc' = "finish" /\ outcome' = "Failed"
    BY <1>6, <1>10 DEF attempt, UpdateSucceeds
  <2>2. Plain'
    BY <1>1, <1>6, <2>1 DEF Inv, Plain, recorder, recovery
  <2>3. posts' < MaxPosts
    BY <1>1, <2>1, DispatcherAssumption
  <2>4. OnAttempt'
    BY <1>1, <1>3, <2>1, <2>3 DEF OnAttempt
  <2>5. Unsent'
    BY <1>1, <2>1 DEF Inv, Unsent
  <2> QED
    BY <1>6, <1>7, <2>2, <2>4, <2>5 DEF Inv
<1> QED
  BY <1>5, <1>8, <1>9, <1>10

LEMMA FinishAttemptStep ==
    ASSUME Inv, FinishAttempt
    PROVE  Inv' /\ Steady
<1> DEFINE s == Finished(cache[chan], att, outcome)
<1>1. /\ pc = "finish" /\ UNCHANGED <<jobs, chan, usable, lastId, posted, fresh>>
      /\ UNCHANGED <<recorder, queue, batch, recovery, history>>
      /\ chan \in Channels /\ outcome \in {"Succeeded", "Failed"}
      /\ lastId \in Nat /\ lastId # 0 /\ att.id = lastId /\ Open(att) /\ att \in Attempts
      /\ stored[chan].last \in {att, [att EXCEPT !.phase = outcome]}
  BY DEF FinishAttempt, history, Inv, OnAttempt, Plain
<1>2. Sound(cache[chan], lastId)
  BY <1>1 DEF Inv, Histories
<1>3. ASSUME cacheCur[chan]
      PROVE  /\ cache[chan] = stored[chan]
             /\ Sound(s, lastId) /\ Counted(cache[chan], s)
             /\ s.last = [att EXCEPT !.phase = outcome]
             /\ \A r \in Refs : Remembers(s, r, posted[chan][r])
  <2>1. /\ cache[chan] = stored[chan]
        /\ cache[chan].last \in {att, [att EXCEPT !.phase = outcome]}
        /\ \A r \in Refs : posted[chan][r] \in Nat
    BY <1>1, <1>3 DEF Inv, Histories, Plain
  <2>2. /\ Sound(s, lastId) /\ Counted(cache[chan], s)
        /\ s.last = [att EXCEPT !.phase = outcome]
    <3> DEFINE x == cache[chan]
    <3>1. Sound(x, lastId) /\ x.last \in {att, Closed(att, outcome)}
      BY <1>2, <2>1 DEF Closed
    <3>2. /\ lastId \in Nat /\ lastId # 0 /\ att \in Attempts /\ att.id = lastId
          /\ Open(att) /\ outcome \in {"Succeeded", "Failed"}
      BY <1>1
    <3> HIDE DEF x
    <3>3. /\ Sound(Finished(x, att, outcome), lastId)
          /\ Counted(x, Finished(x, att, outcome))
          /\ Finished(x, att, outcome).last = Closed(att, outcome)
      BY <3>1, <3>2, FinishSound
    <3> QED
      BY <3>3 DEF x, Closed
  <2>3. \A r \in Refs : Remembers(cache[chan], r, posted[chan][r])
    BY <1>1, <2>1 DEF Inv, Memory
  <2>4. \A r \in Refs : Remembers(s, r, posted[chan][r])
    BY <1>1, <1>2, <2>1, <2>3, FinishMemory
  <2> QED
    BY <2>1, <2>2, <2>4
<1> HIDE DEF s
<1>4. \/ (UpdateSucceeds(chan, s) \/ UpdateGivesUp(chan, s)) /\ NextGroup
      \/ UpdateRetried(chan, s) /\ UNCHANGED <<pc, attempt>>
  BY DEF FinishAttempt, s
<1>5. /\ Histories' /\ Steady
      /\ cacheCur' \in [Channels -> BOOLEAN] /\ faults' \in Nat
      /\ \A d \in Channels : d # chan => stored'[d] = stored[d]
      /\ stored'[chan] = stored[chan] \/ (cacheCur[chan] /\ stored'[chan] = s)
      /\ Write(chan, s) => stored'[chan] = s /\ cache[chan] = stored[chan]
  <2>1. CASE cacheCur[chan]
    <3>1. Update(chan, s)
      BY <1>4 DEF Update
    <3> QED
      BY <1>1, <1>3, <2>1, <3>1, UpdateEffect DEF Inv
  <2>2. CASE ~cacheCur[chan]
    BY <1>1, <1>4, <2>2, StaleUpdate DEF Inv, Update
  <2> QED
    BY <2>1, <2>2
<1>6. Memory'
  <2>1. ASSUME NEW d \in Channels, NEW r \in Refs
        PROVE  posted[d][r] <= lastId /\ Remembers(stored'[d], r, posted[d][r])
    BY <1>3, <1>5 DEF Inv, Memory
  <2> QED
    BY <1>1, <2>1 DEF Memory
<1>7. CASE NextGroup
  BY <1>1, <1>5, <1>6, <1>7, NextGroupStep
<1>8. CASE UpdateRetried(chan, s) /\ UNCHANGED <<pc, attempt>>
  <2>1. /\ UNCHANGED <<pc, att, posts, outcome>> /\ stored'[chan] = s
        /\ cacheCur[chan]
    BY <1>5, <1>8 DEF attempt, UpdateRetried, Write
  <2>2. Plain'
    BY <1>1, <1>5, <2>1 DEF Inv, Plain, recorder, recovery
  <2>3. OnAttempt'
    BY <1>1, <1>3, <2>1 DEF Inv, OnAttempt
  <2>4. Unsent'
    BY <1>1, <2>1 DEF Inv, Unsent
  <2> QED
    BY <1>5, <1>6, <2>2, <2>3, <2>4 DEF Inv
<1> QED
  BY <1>4, <1>7, <1>8

-----------------------------------------------------------------------------
(* The theorems *)

LEMMA Start ==
    ASSUME Init
    PROVE  Inv
<1>1. PICK w \in [Channels -> Filters] :
          stored = [c \in Channels |->
                       [wants |-> w[c], recent |-> {}, last |-> NoAttempt,
                        sent |-> 0, errors |-> 0]]
  BY DEF Init
<1>2. NoAttempt \in Attempts
  BY DEF NoAttempt, Attempts, Phases
<1>3. ASSUME NEW c \in Channels PROVE Sound(stored[c], 0)
  <2> DEFINE s == stored[c]
  <2>1. s \in ChannelObjects /\ s.recent = {} /\ s.last = NoAttempt
    BY <1>1, <1>2 DEF ChannelObjects
  <2>2. IsFiniteSet({}) /\ Cardinality({}) = 0
    BY FS_EmptySet
  <2> HIDE DEF s
  <2>3. Sound(s, 0)
    BY <2>1, <2>2, DispatcherAssumption DEF Sound
  <2> QED
    BY <2>3 DEF s
<1>4. stored \in [Channels -> ChannelObjects]
  BY <1>1, <1>3 DEF Sound
<1>5. Histories
  BY <1>3, <1>4 DEF Init, Histories
<1>6. <<>> \in Seq(Refs) /\ Len(<<>>) <= QueueSize
  BY DispatcherAssumption
<1>7. Plain
  <2>1. /\ caller \in [Refs -> {"pending", "recorded", "lost"}]
        /\ jobs \in [Channels -> SUBSET Refs] /\ posted \in [Channels -> [Refs -> Nat]]
    BY DEF Init
  <2>2. cacheCur \in [Channels -> BOOLEAN] /\ fresh \in [Channels -> BOOLEAN]
    BY DEF Init
  <2>3. usable \in BOOLEAN /\ rec = Idle /\ quiet \subseteq Refs
    BY DEF Init
  <2>4. /\ posts \in 0..MaxPosts /\ cutoff \in Nat /\ lastId \in Nat /\ faults \in Nat
    BY DispatcherAssumption DEF Init
  <2>5. /\ events = {} /\ queue = <<>> /\ pc = "start" /\ batch = {} /\ chan = NoChannel
        /\ att = NoAttempt /\ outcome = "none" /\ recovering = {}
    BY DEF Init
  <2> QED
    BY <1>2, <1>6, <2>1, <2>2, <2>3, <2>4, <2>5 DEF Plain
<1>8. OnAttempt /\ Unsent /\ Memory
  BY DEF Init, OnAttempt, Unsent, Memory, Remembers
<1> QED
  BY <1>5, <1>7, <1>8 DEF Inv

\* Every step preserves the invariant and keeps the counters of the channels.
LEMMA Step ==
    ASSUME Inv, [Next]_vars
    PROVE  Inv' /\ Steady
<1>1. CASE UNCHANGED vars
  <2>1. Plain'
    BY <1>1 DEF vars, Inv, Plain
  <2> QED
    BY <1>1, <2>1, Aside DEF vars, channels, attempt, history
<1>2. CASE Next
  <2>1. CASE Run
    BY <2>1, LoopSteps, DispatchBatchStep, ChannelSteps, TakeGroupStep, PostWebhookStep,
       RecoverChannelStep, BeginAttemptStep, FinishAttemptStep DEF Run
  <2>2. CASE Environment
    BY <2>2, RecorderSteps, CacheSteps, CrashStep DEF Environment
  <2> QED
    BY <1>2, <2>1, <2>2, RecorderSteps, LoopSteps, CacheSteps DEF Next
<1> QED
  BY <1>1, <1>2

LEMMA Invariance == Spec => []Inv
<1>1. Init => Inv
  BY Start
<1>2. Inv /\ [Next]_vars => Inv'
  BY Step
<1> QED
  BY <1>1, <1>2, PTL DEF Spec

\* Every variable of the dispatcher has its type in every reachable state; the
\* queue and the history of a channel never exceed their limits (Enqueue,
\* storeAttempt).
THEOREM TypeCorrect == Spec => []TypeOK
<1>1. Inv => TypeOK
  BY DEF Inv, Plain, Histories, Sound, TypeOK
<1> QED
  BY <1>1, Invariance, PTL

\* No webhook is called before the attempt is in the status of the channel
\* (beginAttempt, deliver).
THEOREM AttemptBeforePostHolds == Spec => AttemptBeforePost
<1>1. Inv => (Posting => att \in stored[chan].recent /\ stored[chan].last = att)
  <2> SUFFICES ASSUME Inv, Posting
               PROVE  att \in stored[chan].recent /\ stored[chan].last = att
    OBVIOUS
  <2>1. /\ chan \in Channels /\ stored[chan].last = att /\ att.id = lastId /\ lastId # 0
    BY DEF Posting, Inv, OnAttempt
  <2>2. att # NoAttempt
    BY <2>1 DEF NoAttempt
  <2> QED
    BY <2>1, <2>2 DEF Inv, Histories, Sound
<1> QED
  BY <1>1, Invariance, PTL DEF AttemptBeforePost

\* The counters of a channel count the attempts that are closed, each of them
\* once, and a closed attempt stays as it is (finishAttempt,
\* recoverIncompleteAttempts, updateChannelStatus).
THEOREM CountersFollowAttemptsHold == Spec => CountersFollowAttempts
<1> DEFINE Right ==
       \A c \in Channels :
          /\ Total(stored'[c]) = Total(stored[c]) + Cardinality(ClosedByStep(c))
          /\ \A a \in stored[c].recent, b \in stored'[c].recent :
                a.id = b.id /\ ~Open(a) => b = a
<1>1. Steady => Right
  BY DEF Steady, Counted, Closing, ClosedByStep
<1>2. Inv /\ [Next]_vars => Right
  BY <1>1, Step
<1> QED
  BY <1>2, Invariance, PTL DEF Spec, CountersFollowAttempts

\* A webhook is repeated only by a batch that was filtered by a copy out of date,
\* or when the history had no room for the first attempt
\* (excludeAttemptedEvents, storeAttempt).
THEOREM ReplayNeedsStaleHistoryHolds == Spec => ReplayNeedsStaleHistory
<1>1. Inv => (Posting /\ posts = 0 /\ fresh[chan] =>
                 \A r \in att.refs :
                    posted[chan][r] # 0 => att.id > posted[chan][r] + MaxRecent)
  <2> SUFFICES ASSUME Inv, Posting, posts = 0, fresh[chan], NEW r \in att.refs,
                      posted[chan][r] # 0
               PROVE  att.id > posted[chan][r] + MaxRecent
    OBVIOUS
  <2>1. chan \in Channels /\ att.id = lastId /\ lastId \in Nat /\ r \in Refs
    BY DEF Posting, Inv, OnAttempt, Plain, Attempts
  <2>2. Old(posted[chan][r], lastId - 1) /\ posted[chan][r] \in Nat
    BY <2>1 DEF Posting, Inv, Unsent, Plain
  <2> QED
    BY <2>1, <2>2, DispatcherAssumption DEF Old
<1> QED
  BY <1>1, Invariance, PTL DEF ReplayNeedsStaleHistory
=============================================================================
