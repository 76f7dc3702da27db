---------------------------- MODULE CertReloader ----------------------------
(***************************************************************************)
(* tlscert.Reloader (cmd/dealer/internal/tlscert/reloader.go): NewReloader *)
(* loads a certificate and a key file, Start polls their modification      *)
(* times and reloads the pair when either changed, GetCertificate hands    *)
(* the pair last loaded to a handshake.  The Stats and the reads of the    *)
(* two files are separate steps, and whoever renews the certificate writes *)
(* the two files, one after the other, at any moment in between.           *)
(*                                                                         *)
(* A certificate is the number of the renewal that issued it and the key   *)
(* it was issued for; a key file is the key it holds.  A renewal may keep  *)
(* the key, and then only the certificate changes.                         *)
(***************************************************************************)
EXTENDS Integers

CONSTANTS
    StartupRenewals,  \* whether the files may change while NewReloader runs
    MaxRenewals       \* bound: number of the last renewal

ASSUME ReloaderAssumption ==
    /\ StartupRenewals \in BOOLEAN
    /\ MaxRenewals \in Nat

VARIABLES
    renewal,   \* environment: the certificate last issued
    certFile,  \* environment: what is in the certificate file
    keyFile,   \* environment: what is in the key file
    pc,        \* main's goroutine in NewReloader, then the one of Start
    starting,  \* NewReloader has not returned
    cert,      \* Reloader.cert
    last,      \* lastCertModTime and lastKeyModTime
    stat,      \* certInfo and keyInfo of the poll under way
    read,      \* the certificate that LoadX509KeyPair has read so far
    cancelled  \* the context of Start

files == <<renewal, certFile, keyFile>>
reloader == <<pc, starting, cert, last, stat, read>>
vars == <<files, reloader, cancelled>>

Certs == [ver : Nat, key : Nat]
FileStates == {"ok", "broken", "missing"}
Pcs == {"readCert", "readKey", "statCert0", "statKey0", "idle", "statKey", "stopped", "exited"}
Stamps == [cert : Nat, key : Nat]

\* The nil pointer of a Reloader that has loaded nothing.
NoPair == [ver |-> 0, key |-> 0, private |-> 0]
NoStamps == [cert |-> 0, key |-> 0]

\* The type invariant.
TypeOK ==
    /\ renewal \in Certs
    /\ certFile \in [ver : Nat, key : Nat, stamp : Nat, state : FileStates]
    /\ keyFile \in [key : Nat, stamp : Nat, state : FileStates]
    /\ pc \in Pcs
    /\ starting \in BOOLEAN
    /\ cert \in [ver : Nat, key : Nat, private : Nat]
    /\ last \in Stamps /\ stat \in Stamps
    /\ read \in Certs
    /\ cancelled \in BOOLEAN

\* buildTLSConfig calls NewReloader with both file names; the files may hold
\* a pair or be unusable.
Init ==
    /\ renewal = [ver |-> 1, key |-> 1]
    /\ \E s \in FileStates : certFile = [ver |-> 1, key |-> 1, stamp |-> 1, state |-> s]
    /\ \E s \in FileStates : keyFile = [key |-> 1, stamp |-> 1, state |-> s]
    /\ pc = "readCert"
    /\ starting = TRUE
    /\ cert = NoPair
    /\ last = NoStamps /\ stat = NoStamps
    /\ read = [ver |-> 0, key |-> 0]
    /\ cancelled = FALSE

CurrentStamps == [cert |-> certFile.stamp, key |-> keyFile.stamp]

\* Where a failed Reload leads: main exits, a poll waits for its next tick.
AfterFailure == IF starting THEN "exited" ELSE "idle"

\* A plausible fault: any key will do.
UnlessMissing == keyFile.state # "missing"

\* X509KeyPair: the certificate read is for the private key in the file.
Matches == keyFile.state = "ok" /\ keyFile.key = read.key

-----------------------------------------------------------------------------
(* Plausible faults of the actions below. *)

ReloadIfBothChanged ==
    /\ pc = "statKey"
    /\ stat' = [stat EXCEPT !.key = keyFile.stamp]
    /\ pc' = IF keyFile.state = "missing" \/ certFile.stamp = last.cert \/ keyFile.stamp = last.key
             THEN "idle" ELSE "readCert"
    /\ UNCHANGED <<files, starting, cert, last, read, cancelled>>

RememberAfterLoad ==
    /\ pc = "readKey"
    /\ \/ /\ Matches
          /\ cert' = [ver |-> read.ver, key |-> read.key, private |-> keyFile.key]
          /\ last' = IF starting THEN last ELSE CurrentStamps
          /\ pc' = IF starting THEN "statCert0" ELSE "idle"
       \/ /\ ~Matches
          /\ pc' = AfterFailure
          /\ UNCHANGED <<cert, last>>
    /\ UNCHANGED <<files, starting, stat, read, cancelled>>

FallBackToFirst ==
    /\ pc = "readKey"
    /\ cert' = IF Matches THEN [ver |-> read.ver, key |-> read.key, private |-> keyFile.key]
                          ELSE [ver |-> 1, key |-> 1, private |-> 1]
    /\ last' = IF starting THEN last ELSE stat
    /\ pc' = IF starting THEN "statCert0" ELSE "idle"
    /\ UNCHANGED <<files, starting, stat, read, cancelled>>

-----------------------------------------------------------------------------
(* Reload, from NewReloader or from a poll *)

\* LoadX509KeyPair reads the certificate file ...
ReadCert ==
    /\ pc = "readCert"
    /\ \/ /\ certFile.state = "ok"
          /\ read' = [ver |-> certFile.ver, key |-> certFile.key]
          /\ pc' = "readKey"
       \/ /\ certFile.state # "ok"
          /\ pc' = AfterFailure
          /\ UNCHANGED read
    /\ UNCHANGED <<files, starting, cert, last, stat, cancelled>>

\* ... and the key file.  A matching pair is swapped in, and a poll then
\* remembers the times it saw before it loaded; anything else changes nothing.
ReadKey ==
    /\ pc = "readKey"
    /\ \/ /\ Matches
          /\ cert' = [ver |-> read.ver, key |-> read.key, private |-> keyFile.key]
          /\ last' = IF starting THEN last ELSE stat
          /\ pc' = IF starting THEN "statCert0" ELSE "idle"
       \/ /\ ~Matches
          /\ pc' = AfterFailure
          /\ UNCHANGED <<cert, last>>
    /\ UNCHANGED <<files, starting, stat, read, cancelled>>

\* NewReloader's Stats come after the load.
StatCertAtStart ==
    /\ pc = "statCert0"
    /\ last' = [last EXCEPT !.cert = IF certFile.state = "missing" THEN 0 ELSE certFile.stamp]
    /\ pc' = "statKey0"
    /\ UNCHANGED <<files, starting, cert, stat, read, cancelled>>

StatKeyAtStart ==
    /\ pc = "statKey0"
    /\ last' = [last EXCEPT !.key = IF keyFile.state = "missing" THEN 0 ELSE keyFile.stamp]
    /\ pc' = "idle"
    /\ starting' = FALSE
    /\ UNCHANGED <<files, cert, stat, read, cancelled>>

-----------------------------------------------------------------------------
(* Start and pollOnce *)

\* A tick; a Stat that fails ends the poll.
StatCert ==
    /\ pc = "idle"
    /\ certFile.state # "missing"
    /\ stat' = [stat EXCEPT !.cert = certFile.stamp]
    /\ pc' = "statKey"
    /\ UNCHANGED <<files, starting, cert, last, read, cancelled>>

\* The second Stat: either time has changed, or the poll is over.
StatKey ==
    /\ pc = "statKey"
    /\ \/ /\ keyFile.state # "missing"
          /\ stat' = [stat EXCEPT !.key = keyFile.stamp]
          /\ pc' = IF stat' = last THEN "idle" ELSE "readCert"
       \/ /\ keyFile.state = "missing"
          /\ pc' = "idle"
          /\ UNCHANGED stat
    /\ UNCHANGED <<files, starting, cert, last, read, cancelled>>

\* ctx.Done(); a tick that is ready too may win the select.
Stop ==
    /\ pc = "idle"
    /\ cancelled
    /\ pc' = "stopped"
    /\ UNCHANGED <<files, starting, cert, last, stat, read, cancelled>>

-----------------------------------------------------------------------------
(* Environment *)

\* The signal that ends the process.
Signal ==
    /\ ~starting
    /\ ~cancelled
    /\ cancelled' = TRUE
    /\ UNCHANGED <<files, reloader>>

\* A certificate is issued, for the same key or for a new one.
Issue(keepKey) ==
    /\ renewal.ver < MaxRenewals
    /\ renewal' = [ver |-> renewal.ver + 1,
                   key |-> IF keepKey THEN renewal.key ELSE renewal.ver + 1]
    /\ UNCHANGED <<certFile, keyFile, reloader, cancelled>>

\* Somebody writes a file that is out of date.  The write may first leave it
\* truncated or removed, and may be given up there.
WriteCert(s) ==
    /\ StartupRenewals \/ ~starting
    /\ certFile.ver # renewal.ver \/ certFile.state # "ok"
    /\ s = "ok" \/ certFile.state = "ok"
    /\ certFile' = [ver |-> IF s = "ok" THEN renewal.ver ELSE certFile.ver,
                    key |-> IF s = "ok" THEN renewal.key ELSE certFile.key,
                    stamp |-> certFile.stamp + 1, state |-> s]
    /\ UNCHANGED <<renewal, keyFile, reloader, cancelled>>

WriteKey(s) ==
    /\ StartupRenewals \/ ~starting
    /\ keyFile.key # renewal.key \/ keyFile.state # "ok"
    /\ s = "ok" \/ keyFile.state = "ok"
    /\ keyFile' = [key |-> IF s = "ok" THEN renewal.key ELSE keyFile.key,
                   stamp |-> keyFile.stamp + 1, state |-> s]
    /\ UNCHANGED <<renewal, certFile, reloader, cancelled>>

ReloaderStep ==
    ReadCert \/ ReadKey \/ StatCertAtStart \/ StatKeyAtStart \/ StatCert \/ StatKey \/ Stop

Next ==
    \/ ReloaderStep
    \/ Signal
    \/ \E keepKey \in BOOLEAN : Issue(keepKey)
    \/ \E s \in FileStates : WriteCert(s) \/ WriteKey(s)

Spec == Init /\ [][Next]_vars

\* The ticker keeps firing and the goroutine is scheduled.
FairSpec == Spec /\ WF_vars(ReloaderStep)

-----------------------------------------------------------------------------
(* Properties *)

(***************************************************************************)
(* GetCertificate never hands out a certificate with another one's key, or *)
(* none: a poll between the two writes of a renewal, or between two        *)
(* renewals, loads nothing, and "a failure leaves the previously loaded    *)
(* certificate in place rather than clearing it" (Reload).                 *)
(***************************************************************************)
ServesMatchingPair ==
    ~starting => cert.ver > 0 /\ cert.private = cert.key

\* What a handshake sees: a renewal, or -1 for a certificate with another
\* one's key.
Reload == INSTANCE HotReload WITH
    published <- renewal.ver,
    served <- IF cert.private = cert.key THEN cert.ver ELSE -1

(***************************************************************************)
(* The two files and the polls are invisible to a handshake: it gets an    *)
(* issued certificate with its key, never an older one than one before it. *)
(* reloader.go: "a failure leaves the previously loaded certificate in     *)
(* place".                                                                 *)
(***************************************************************************)
ImplementsHotReload == Reload!Spec

(***************************************************************************)
(* The next poll will reload unless the pair on disk is the one served:    *)
(* the times remembered are never newer than what was read, however the    *)
(* writes of a renewal fall between the Stats and the reads of a poll.     *)
(***************************************************************************)
NothingMissed ==
    ~starting /\ last = CurrentStamps =>
        /\ cert = [ver |-> certFile.ver, key |-> certFile.key, private |-> keyFile.key]
        /\ certFile.state = "ok" /\ keyFile.state = "ok"

(***************************************************************************)
(* README: "Both files are re-read periodically so a renewed certificate   *)
(* is picked up without a restart".  Once the last renewal is on disk, the *)
(* reloader ends up serving it, whatever it met half written before.       *)
(***************************************************************************)
RenewalServed ==
    /\ <>[]/\ certFile.state = "ok" /\ certFile.ver = renewal.ver
           /\ keyFile.state = "ok" /\ keyFile.key = renewal.key
    /\ [](~cancelled /\ pc # "exited")
    => <>[](cert.ver = renewal.ver)
=============================================================================
