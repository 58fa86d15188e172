\* A file of up to two lines, its tasks, and two of a settle request, a
\* change form and a deletion.
\* All runs may be over: no deadlock check.
SPECIFICATION FairSpec
CONSTANTS
    Lines <- MCLines
    Files <- MCFiles
    Settles = {s1}
    Others = 2
INVARIANTS
    TypeOK
    UploadSettlesAll
    OnlyWeakAreFlagged
    QuietIsCompleted
PROPERTIES
    EventuallyCompleted
CHECK_DEADLOCK FALSE
