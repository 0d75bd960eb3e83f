\* Two sources, one failing poll: a request per appearance, whichever tick it is.
SPECIFICATION FairSpec
CONSTANTS
    lease = lease
    orphan = orphan
    Candidate = {lease, orphan}
    Sources <- Recovery
    From <- Where
    MaxVisits = 2
    MaxFaults = 1
PROPERTIES OncePerAppearance Served
CHECK_DEADLOCK FALSE
