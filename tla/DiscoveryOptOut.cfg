SPECIFICATION Spec
CONSTANTS
    MaxReplicas = 1
    MaxUIDs = 1
    MaxEdits = 2
PROPERTY OptOutKeepsSnapshot
