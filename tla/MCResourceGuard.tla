--------------------------- MODULE MCResourceGuard --------------------------
(* Memory and CPU in twentieths of the limit, disk in units of 50 MB, with *)
(* the default thresholds, and values on both sides of every one of them.  *)
EXTENDS ResourceGuard

CONSTANTS t1, t2

OneThread == {t1}
TwoThreads == {t1, t2}
MemoryAround == {12, 13, 14, 16, 17, 18, 19, 21}
MemoryFew == {12, 14, 17, 19}
DiskAround == {2, 10, 21}
DiskOne == {21}
CpuAround == {15, 16, 18}
CpuOne == {10}
DefaultMemory == <<14, 17, 19>>
DefaultDisk == <<20, 10, 2>>
DefaultCpu == <<16, 18>>
=============================================================================
