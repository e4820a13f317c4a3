\* Producers, leases and crashes around a sweep; puts, repairs and kills around
\* an eviction; owners of one child; turns of the speculation runtime.  All of
\* them may stop.
SPECIFICATION ShareSpec
CONSTANTS
    Hashes = {1, 2}
    Children <- mcChildren
    Producers = {p}
    Ops = {o}
    Pinnable = {1}
    Leasable = {2}
    MaxEpoch = 2
    MaxGcFaults = 1
    Blobs = {"b1", "b2", "b3"}
    Size <- mcSize
    Rootable = {"b3"}
    Replicas = {r}
    Putters = {k}
    MaxBlobKills = 1
    NoBlob = NoBlob
    Owners = {h1, h2}
    MaxKids = 2
    Threads = {t1, t2}
    Permits <- mcPermits
    Limit = 1
    MaxAdmissions = 2
INVARIANTS
    EvidenceIsSound
    EvictionIsSafe
    
    SettledOnce
    NoCircularWait
 
CHECK_DEADLOCK FALSE
