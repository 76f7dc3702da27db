------------------------ MODULE CertReloader_proofs ------------------------
(***************************************************************************)
(* Proofs about CertReloader, for any number of renewals.                  *)
(***************************************************************************)
EXTENDS CertReloader, TLAPS

\* Renewals only go forward, on disk, in the hands of a load and in what is
\* served; what is served is a pair, and is there once NewReloader returned.
PairInv ==
    /\ cert.private = cert.key
    /\ 0 < certFile.ver /\ certFile.ver <= renewal.ver
    /\ cert.ver <= certFile.ver
    /\ pc = "readKey" => 0 < read.ver /\ cert.ver <= read.ver /\ read.ver <= certFile.ver
    /\ (~starting \/ pc \in {"statCert0", "statKey0"}) => cert.ver > 0
    /\ ~starting => pc \notin {"statCert0", "statKey0"}
    /\ pc \in {"idle", "statKey", "stopped"} => ~starting

CertOnDisk == [ver |-> certFile.ver, key |-> certFile.key]
PairOnDisk == [ver |-> certFile.ver, key |-> certFile.key, private |-> keyFile.key]

\* No time is remembered or seen that the file has not had, and a load that
\* found the file with the time the poll saw has read what is in it.
StampInv ==
    /\ last.cert <= certFile.stamp /\ last.key <= keyFile.stamp
    /\ stat.cert <= certFile.stamp /\ stat.key <= keyFile.stamp
    /\ pc = "readKey" /\ (starting \/ stat.cert = certFile.stamp)
         => read = CertOnDisk /\ certFile.state = "ok"
    /\ pc \in {"statCert0", "statKey0"}
         => starting /\ cert = PairOnDisk /\ certFile.state = "ok" /\ keyFile.state = "ok"
    /\ pc = "statKey0" => last.cert = certFile.stamp
    /\ NothingMissed

-----------------------------------------------------------------------------
(***************************************************************************)
(* The reloader's state keeps its type.                                    *)
(***************************************************************************)
THEOREM TypeCorrect == Spec => []TypeOK
<1>1. ASSUME Init PROVE TypeOK
  <2>1. starting \in BOOLEAN /\ cancelled \in BOOLEAN
    BY <1>1, Zenon DEF Init
  <2>2. /\ certFile \in [ver : Nat, key : Nat, stamp : Nat, state : FileStates]
        /\ keyFile \in [key : Nat, stamp : Nat, state : FileStates]
    BY <1>1 DEF Init
  <2>3. /\ renewal \in Certs /\ read \in Certs
        /\ cert \in [ver : Nat, key : Nat, private : Nat]
        /\ last \in Stamps /\ stat \in Stamps
        /\ pc \in Pcs
    BY <1>1 DEF Init, Certs, Pcs, Stamps, NoPair, NoStamps
  <2> QED
    BY <2>1, <2>2, <2>3 DEF TypeOK
<1>2. TypeOK /\ [Next]_vars => TypeOK'
  <2> SUFFICES ASSUME TypeOK, [Next]_vars PROVE TypeOK'
    OBVIOUS
  <2> USE DEF TypeOK, Certs, FileStates, Pcs, Stamps, AfterFailure, files, reloader
  <2>1. CASE ReadCert
    BY <2>1 DEF ReadCert
  <2>2. CASE ReadKey
    BY <2>2 DEF ReadKey
  <2>3. CASE StatCertAtStart
    BY <2>3 DEF StatCertAtStart
  <2>4. CASE StatKeyAtStart
    BY <2>4 DEF StatKeyAtStart
  <2>5. CASE StatCert
    BY <2>5 DEF StatCert
  <2>6. CASE StatKey
    BY <2>6 DEF StatKey
  <2>7. CASE Stop
    BY <2>7 DEF Stop
  <2>8. CASE Signal
    BY <2>8 DEF Signal
  <2>9. ASSUME NEW keepKey \in BOOLEAN, Issue(keepKey) PROVE TypeOK'
    BY <2>9 DEF Issue
  <2>10. ASSUME NEW s \in FileStates, WriteCert(s) PROVE TypeOK'
    BY <2>10 DEF WriteCert
  <2>11. ASSUME NEW s \in FileStates, WriteKey(s) PROVE TypeOK'
    BY <2>11 DEF WriteKey
  <2>12. CASE UNCHANGED vars
    BY <2>12 DEF vars
  <2> QED
    BY <2>1, <2>2, <2>3, <2>4, <2>5, <2>6, <2>7, <2>8, <2>9, <2>10, <2>11, <2>12
    DEF Next, ReloaderStep
<1> QED
  BY <1>1, <1>2, PTL DEF Spec

LEMMA PairInvInit == Init => PairInv
  BY DEF Init, PairInv, NoPair

LEMMA PairInvStep == TypeOK /\ PairInv /\ [Next]_vars => PairInv'
<1> SUFFICES ASSUME TypeOK, PairInv, [Next]_vars PROVE PairInv'
  OBVIOUS
<1> USE DEF TypeOK, Certs, FileStates, Pcs, Stamps, PairInv, AfterFailure, Matches, files, reloader
<1>1. CASE ReadCert
  BY <1>1 DEF ReadCert
<1>2. CASE ReadKey
  BY <1>2 DEF ReadKey
<1>3. CASE StatCertAtStart
  BY <1>3 DEF StatCertAtStart
<1>4. CASE StatKeyAtStart
  BY <1>4 DEF StatKeyAtStart
<1>5. CASE StatCert
  BY <1>5 DEF StatCert
<1>6. CASE StatKey
  BY <1>6 DEF StatKey
<1>7. CASE Stop
  BY <1>7 DEF Stop
<1>8. CASE Signal
  BY <1>8 DEF Signal
<1>9. ASSUME NEW keepKey \in BOOLEAN, Issue(keepKey) PROVE PairInv'
  BY <1>9 DEF Issue
<1>10. ASSUME NEW s \in FileStates, WriteCert(s) PROVE PairInv'
  BY <1>10 DEF WriteCert
<1>11. ASSUME NEW s \in FileStates, WriteKey(s) PROVE PairInv'
  BY <1>11 DEF WriteKey
<1>12. CASE UNCHANGED vars
  BY <1>12 DEF vars
<1> QED
  BY <1>1, <1>2, <1>3, <1>4, <1>5, <1>6, <1>7, <1>8, <1>9, <1>10, <1>11, <1>12
  DEF Next, ReloaderStep

(***************************************************************************)
(* Whatever a poll finds half written, GetCertificate has a certificate    *)
(* and the key it was issued for.                                          *)
(***************************************************************************)
THEOREM PairsMatch == Spec => []ServesMatchingPair
<1>1. PairInv => ServesMatchingPair
  BY DEF PairInv, ServesMatchingPair
<1> QED
  BY <1>1, PairInvInit, PairInvStep, TypeCorrect, PTL DEF Spec

(***************************************************************************)
(* A handshake cannot tell the reloader from HotReload: what it is handed  *)
(* is an issued pair and never an older one.                               *)
(***************************************************************************)
THEOREM ReloaderImplementsHotReload == Spec => ImplementsHotReload
<1>1. Init => Reload!Init
  BY DEF Init, Reload!Init, NoPair
<1>2. TypeOK /\ PairInv /\ PairInv' /\ [Next]_vars
        => [Reload!Publish \/ Reload!Load]_Reload!hotVars
  <2> SUFFICES ASSUME TypeOK, PairInv, PairInv', [Next]_vars
               PROVE  [Reload!Publish \/ Reload!Load]_Reload!hotVars
    OBVIOUS
  <2> USE DEF Reload!hotVars
  <2>1. CASE ReadKey
    <3>1. CASE UNCHANGED cert
      BY <2>1, <3>1 DEF ReadKey, files
    <3>2. CASE cert' = [ver |-> read.ver, key |-> read.key, private |-> keyFile.key]
      BY <2>1, <3>2 DEF ReadKey, Matches, PairInv, TypeOK, Certs, files, Reload!Load
    <3> QED BY <2>1, <3>1, <3>2 DEF ReadKey
  <2>2. ASSUME NEW keepKey \in BOOLEAN, Issue(keepKey)
        PROVE  [Reload!Publish \/ Reload!Load]_Reload!hotVars
    BY <2>2 DEF Issue, TypeOK, Certs, reloader, Reload!Publish
  <2>3. CASE UNCHANGED <<renewal, cert>>
    BY <2>3
  <2> QED
    BY <2>1, <2>2, <2>3 DEF Next, ReloaderStep, ReadCert, StatCertAtStart, StatKeyAtStart,
                            StatCert, StatKey, Stop, Signal, WriteCert, WriteKey, reloader, files,
                            vars
<1> QED
  BY <1>1, <1>2, PairInvInit, PairInvStep, TypeCorrect, PTL
  DEF Spec, ImplementsHotReload, Reload!Spec

-----------------------------------------------------------------------------
LEMMA StampInvStep ==
  ASSUME ~StartupRenewals
  PROVE  TypeOK /\ PairInv /\ StampInv /\ [Next]_vars => StampInv'
<1> SUFFICES ASSUME TypeOK, PairInv, StampInv, [Next]_vars PROVE StampInv'
  OBVIOUS
<1> USE DEF TypeOK, Certs, FileStates, Pcs, Stamps, StampInv, NothingMissed, CurrentStamps,
            CertOnDisk, PairOnDisk, AfterFailure, Matches, files, reloader
<1>1. CASE ReadCert
  BY <1>1 DEF ReadCert, PairInv
<1>2. CASE ReadKey
  BY <1>2 DEF ReadKey, PairInv
<1>3. CASE StatCertAtStart
  BY <1>3 DEF StatCertAtStart, PairInv
<1>4. CASE StatKeyAtStart
  BY <1>4 DEF StatKeyAtStart, PairInv
<1>5. CASE StatCert
  BY <1>5 DEF StatCert, PairInv
<1>6. CASE StatKey
  BY <1>6 DEF StatKey, PairInv
<1>7. CASE Stop
  BY <1>7 DEF Stop
<1>8. CASE Signal
  BY <1>8 DEF Signal
<1>9. ASSUME NEW keepKey \in BOOLEAN, Issue(keepKey) PROVE StampInv'
  BY <1>9 DEF Issue
<1>10. ASSUME NEW s \in FileStates, WriteCert(s) PROVE StampInv'
  BY <1>10 DEF WriteCert, PairInv
<1>11. ASSUME NEW s \in FileStates, WriteKey(s) PROVE StampInv'
  BY <1>11 DEF WriteKey, PairInv
<1>12. CASE UNCHANGED vars
  BY <1>12 DEF vars
<1> QED
  BY <1>1, <1>2, <1>3, <1>4, <1>5, <1>6, <1>7, <1>8, <1>9, <1>10, <1>11, <1>12
  DEF Next, ReloaderStep

(***************************************************************************)
(* If the files rest while NewReloader runs, no renewal is ever taken for  *)
(* loaded that is not the one served, however it falls between the steps   *)
(* of a poll: the safety half of RenewalServed.                            *)
(***************************************************************************)
THEOREM NoRenewalMissed ==
  ASSUME ~StartupRenewals
  PROVE  Spec => []NothingMissed
<1>1. Init => StampInv
  BY DEF Init, StampInv, NothingMissed, NoStamps
<1>2. StampInv => NothingMissed
  BY DEF StampInv
<1> QED
  BY <1>1, <1>2, StampInvStep, PairInvInit, PairInvStep, TypeCorrect, PTL DEF Spec
=============================================================================
