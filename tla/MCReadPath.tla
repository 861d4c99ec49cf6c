----------------------------- MODULE MCReadPath -----------------------------
(* What stands between a read and the database: the snapshots of a cached  *)
(* entity set, and the scan plan.  A behaviour is about one of them; the   *)
(* other stays where it starts.                                            *)
EXTENDS EntityCache, FastScan

ASSUME SameReaders == Scans = Readers

VARIABLE part     \* "cache" or "scan"
readPathVars == <<part, vars, scanVars>>

ReadPathInit ==
  /\ part \in {"cache", "scan"} /\ Init /\ ScanInit
  /\ part = "cache" => row = [c \in Columns |-> "ok"]
Cached(A) == part = "cache" /\ A /\ UNCHANGED <<part, scanVars>>
Scanned(A) == part = "scan" /\ A /\ UNCHANGED <<part, vars>>
CacheStep == Cached(Next)
ScanStep == Scanned(ScanNext)
ReadPathNext == CacheStep \/ ScanStep

\* FairSpec for the behaviours of the cache, FairScanSpec for those of the plan:
\* what stays put is never enabled.
FairReadPathSpec ==
  /\ ReadPathInit /\ [][ReadPathNext]_readPathVars
  /\ \A r \in Readers :
       /\ WF_readPathVars(Cached(ReaderStep(r)) \/ Scanned(Step(r)))
       /\ \A cols \in Lists : SF_readPathVars(Cached(LockRefresh(r)) \/ Scanned(Start(r, cols, TRUE)))
  /\ \A w \in Writers : WF_readPathVars(Cached(InvalidateAndAnswer(w)))
  /\ \A c \in Columns : WF_readPathVars(Cached(Tick) \/ Scanned(Expire(c)))
=============================================================================
