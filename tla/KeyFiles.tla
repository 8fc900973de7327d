-------------------------------- MODULE KeyFiles --------------------------------
(***************************************************************************)
(* The persistent signing key of one component (issuer, authority or paid  *)
(* service) and the trust file others pin: src/packages/identity/src/      *)
(* key-file.ts and its callers.  Every file call is a step; a process may  *)
(* be killed between any two of them and started again, and a replacement   *)
(* may start before the old process is gone.                               *)
(*                                                                         *)
(* Files survive a kill; the machine itself does not fail.                 *)
(***************************************************************************)
EXTENDS Naturals, FiniteSets

CONSTANTS
    Process,        \* processes of the component
    Reader,         \* parties that pin its public key
    Key,            \* seeds that may be drawn; a seed stands for its key pair
    Absent, Empty,  \* a file that is not there; one with nothing in it yet
    MaxCrashes      \* bound of the model

ASSUME KeyFilesAssumption ==
    /\ Absent # Empty /\ {Absent, Empty} \cap Key = {}
    /\ MaxCrashes \in Nat

VARIABLES
    keyFile,    \* the private seed file
    tmp,        \* the trust file's temporary file
    trust,      \* the published trust file
    pc,         \* where each process is in its start
    seed,       \* the seed each process has, or Absent
    drawn,      \* seeds drawn so far
    pinned,     \* what each reader pinned, or Absent
    crashes,
    overlap     \* whether this deployment lets two processes run at once; constant

keyVars == <<keyFile, tmp, trust, pc, seed, drawn, pinned, crashes, overlap>>

KeyInit ==
    /\ keyFile = Absent /\ tmp = Absent /\ trust = Absent
    /\ pc = [p \in Process |-> "down"]
    /\ seed = [p \in Process |-> Absent]
    /\ drawn = {}
    /\ pinned = [r \in Reader |-> Absent]
    /\ crashes = 0
    /\ overlap \in BOOLEAN

Goto(p, label) == pc' = [pc EXCEPT ![p] = label]

-----------------------------------------------------------------------------
(* readOrCreatePrivateFile                                                 *)

Launch(p) ==
    /\ pc[p] = "down"
    /\ overlap \/ \A other \in Process : pc[other] = "down"
    /\ Goto(p, "stat")
    /\ UNCHANGED <<keyFile, tmp, trust, seed, drawn, pinned, crashes, overlap>>

\* statSync: the file is there and is read, or a seed is drawn.
Stat(p) ==
    /\ pc[p] = "stat"
    /\ IF keyFile # Absent
       THEN Goto(p, "read") /\ UNCHANGED <<seed, drawn>>
       ELSE \E k \in Key \ drawn :
              /\ seed' = [seed EXCEPT ![p] = k]
              /\ drawn' = drawn \cup {k}
              /\ Goto(p, "open")
    /\ UNCHANGED <<keyFile, tmp, trust, pinned, crashes, overlap>>

\* A start that throws: the process exits, and its seed is lost.
Exit(p) ==
    /\ Goto(p, "down")
    /\ seed' = [seed EXCEPT ![p] = Absent]

\* readFileSync, and the check of its length.
Read(p) ==
    /\ pc[p] = "read"
    /\ IF keyFile \in Key
       THEN seed' = [seed EXCEPT ![p] = keyFile] /\ Goto(p, "publish")
       ELSE Exit(p)
    /\ UNCHANGED <<keyFile, tmp, trust, drawn, pinned, crashes, overlap>>

\* Slip: an existing file is truncated, flag "w".
OpenTruncating(p) ==
    /\ pc[p] = "open"
    /\ keyFile' = Empty
    /\ Goto(p, "write")
    /\ UNCHANGED <<tmp, trust, seed, drawn, pinned, crashes, overlap>>

\* openSync with "wx": fails when somebody else created the file meanwhile.
OpenExclusively(p) ==
    /\ pc[p] = "open"
    /\ IF keyFile = Absent
       THEN keyFile' = Empty /\ Goto(p, "write") /\ UNCHANGED seed
       ELSE Exit(p) /\ UNCHANGED keyFile
    /\ UNCHANGED <<tmp, trust, drawn, pinned, crashes, overlap>>

\* writeSync
Write(p) ==
    /\ pc[p] = "write"
    /\ keyFile' = seed[p]
    /\ Goto(p, "publish")
    /\ UNCHANGED <<tmp, trust, seed, drawn, pinned, crashes, overlap>>

-----------------------------------------------------------------------------
(* publishPublicKey, and what the component does then.                     *)

\* Slip: the trust file is opened and written in place.
OpenTrust(p) ==
    /\ pc[p] = "publish"
    /\ tmp' = Empty /\ trust' = Empty
    /\ Goto(p, "tmp")
    /\ UNCHANGED <<keyFile, seed, drawn, pinned, crashes, overlap>>

\* writeFileSync opens the temporary file, and then writes it.
OpenTmp(p) ==
    /\ pc[p] = "publish"
    /\ tmp' = Empty
    /\ Goto(p, "tmp")
    /\ UNCHANGED <<keyFile, trust, seed, drawn, pinned, crashes, overlap>>

\* ... which may by now have been renamed by another process: then it is the
\* trust file itself ("moved"), or was replaced as such ("gone").
WriteTmp(p) ==
    /\ pc[p] \in {"tmp", "moved", "gone"}
    /\ tmp' = IF pc[p] = "tmp" THEN seed[p] ELSE tmp
    /\ trust' = IF pc[p] = "moved" THEN seed[p] ELSE trust
    /\ Goto(p, "rename")
    /\ UNCHANGED <<keyFile, seed, drawn, pinned, crashes, overlap>>

\* renameSync, which fails when another process has renamed the file.
Rename(p) ==
    /\ pc[p] = "rename"
    /\ IF tmp = Absent
       THEN Exit(p) /\ UNCHANGED <<tmp, trust>>
       ELSE /\ trust' = tmp /\ tmp' = Absent
            /\ pc' = [q \in Process |-> IF q = p THEN "up"
                                       ELSE IF pc[q] = "tmp" THEN "moved"
                                       ELSE IF pc[q] = "moved" THEN "gone" ELSE pc[q]]
            /\ UNCHANGED seed
    /\ UNCHANGED <<keyFile, drawn, pinned, crashes, overlap>>

\* A process is killed at any point of this.
Crash(p) ==
    /\ pc[p] # "down"
    /\ crashes < MaxCrashes
    /\ crashes' = crashes + 1
    /\ Exit(p)
    /\ UNCHANGED <<keyFile, tmp, trust, drawn, pinned, overlap>>

-----------------------------------------------------------------------------
(* Another component reads the trust file once it needs the key, and keeps  *)
(* it; what is not a key is refused (loadPinnedPublicKey, readAuthorityKey). *)

Pin(r) ==
    /\ pinned[r] = Absent
    /\ trust \in Key
    /\ pinned' = [pinned EXCEPT ![r] = trust]
    /\ UNCHANGED <<keyFile, tmp, trust, pc, seed, drawn, crashes, overlap>>

Start(p) == Launch(p) \/ Stat(p) \/ Read(p) \/ OpenExclusively(p) \/ Write(p)
            \/ OpenTmp(p) \/ WriteTmp(p) \/ Rename(p)

KeyNext == (\E p \in Process : Start(p) \/ Crash(p)) \/ (\E r \in Reader : Pin(r))

KeySpec == KeyInit /\ [][KeyNext]_keyVars

\* A component that is down is started again, and a start goes on.
FairKeySpec == KeySpec /\ WF_keyVars(\E p \in Process : Start(p))

-----------------------------------------------------------------------------
(* Properties.                                                             *)

KeyTypeOK ==
    /\ keyFile \in Key \cup {Absent, Empty}
    /\ tmp \in Key \cup {Absent, Empty}
    /\ trust \in Key \cup {Absent, Empty}
    /\ pc \in [Process -> {"down", "stat", "read", "open", "write", "publish", "tmp",
                           "moved", "gone", "rename", "up"}]
    /\ seed \in [Process -> Key \cup {Absent}]
    /\ drawn \in SUBSET Key
    /\ pinned \in [Reader -> Key \cup {Absent}]
    /\ crashes \in 0..MaxCrashes
    /\ overlap \in BOOLEAN

Publishing == {"publish", "tmp", "moved", "gone", "rename", "up"}

\* The component has one identity for ever, through kills and overlapping
\* starts: whoever gets as far as publishing has the key of the file, and
\* what any reader pinned is that key (readOrCreatePrivateFile never
\* overwrites an existing key).
OneIdentity ==
    /\ \A p \in Process : pc[p] \in Publishing => seed[p] = keyFile
    /\ \A r \in Reader : pinned[r] # Absent => pinned[r] = keyFile

\* The key of the file never changes.
KeyIsKept == [][(keyFile \in Key) => (keyFile' = keyFile)]_keyVars

\* A reader never sees a half-written trust root (publishPublicKey).
NeverHalfWritten == trust # Empty

\* ... which holds as long as one process publishes at a time: the temporary
\* file has one name, and the rename is the only write of the trust file.
HalfWrittenOnlyByTwo == ~overlap => trust # Empty

\* A private file is created on first use, and so the component comes up
\* (readOrCreatePrivateFile), also when a first start is killed.
ComesUp == <>(\E p \in Process : pc[p] = "up")

=============================================================================
