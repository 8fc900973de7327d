----------------------------- MODULE KeyFilesProofs -----------------------------
(***************************************************************************)
(* That a component keeps one identity, for any number of processes,       *)
(* readers, seeds and kills, also when starts overlap; and that its trust  *)
(* file is never half-written while one process publishes at a time.       *)
(***************************************************************************)
EXTENDS KeyFiles, TLAPS

\* A process that drew a seed or read one has it.
HoldsSeed == \A p \in Process :
    pc[p] \in {"open", "write"} \cup Publishing => seed[p] \in Key

\* Between the exclusive creation and the write the file is empty, and one
\* process alone is there: nobody else can have created it.
OneWriter ==
    /\ \A p \in Process : pc[p] = "write" => keyFile = Empty
    /\ \A p, q \in Process : pc[p] = "write" /\ pc[q] = "write" => p = q

\* Only the key of the file is ever published.
PublishesTheKey ==
    /\ tmp \in Key => tmp = keyFile
    /\ trust \in Key => trust = keyFile

\* While one process runs at a time, nobody renames the temporary file under
\* its writer, and what is renamed is written.
OnePublisher == ~overlap =>
    /\ \A p, q \in Process : pc[p] # "down" /\ pc[q] # "down" => p = q
    /\ \A p \in Process : pc[p] \notin {"moved", "gone"}
    /\ \A p \in Process : pc[p] = "rename" => tmp \in Key
    /\ trust # Empty

KeyInv == KeyTypeOK /\ HoldsSeed /\ OneWriter /\ PublishesTheKey /\ OneIdentity

\* The start of the first process ever: nothing is there yet.
LEMMA KeyInvInit == KeyInit => KeyInv
BY KeyFilesAssumption DEF KeyInit, KeyInv, KeyTypeOK, HoldsSeed, OneWriter, PublishesTheKey,
   OneIdentity, Publishing

\* Every file call, kill and start keeps the invariant, and a key once in the
\* file stays (readOrCreatePrivateFile, publishPublicKey).
LEMMA KeyInvStep ==
    ASSUME KeyInv, [KeyNext]_keyVars
    PROVE  KeyInv' /\ (keyFile \in Key => keyFile' = keyFile)
<1> USE KeyFilesAssumption DEF KeyInv, KeyTypeOK, HoldsSeed, OneWriter, PublishesTheKey,
        OneIdentity, Publishing
<1>1. CASE UNCHANGED keyVars
  BY <1>1 DEF keyVars
<1>2. ASSUME NEW p \in Process, Launch(p)
      PROVE  KeyInv' /\ (keyFile \in Key => keyFile' = keyFile)
  BY <1>2 DEF Launch, Goto
<1>3. ASSUME NEW p \in Process, Stat(p)
      PROVE  KeyInv' /\ (keyFile \in Key => keyFile' = keyFile)
  BY <1>3 DEF Stat, Goto
<1>4. ASSUME NEW p \in Process, Read(p)
      PROVE  KeyInv' /\ (keyFile \in Key => keyFile' = keyFile)
  BY <1>4 DEF Read, Exit, Goto
<1>5. ASSUME NEW p \in Process, OpenExclusively(p)
      PROVE  KeyInv' /\ (keyFile \in Key => keyFile' = keyFile)
  <2>1. CASE keyFile = Absent
    BY <1>5, <2>1 DEF OpenExclusively, Goto
  <2>2. CASE keyFile # Absent
    BY <1>5, <2>2 DEF OpenExclusively, Exit, Goto
  <2> QED BY <2>1, <2>2
<1>6. ASSUME NEW p \in Process, Write(p)
      PROVE  KeyInv' /\ (keyFile \in Key => keyFile' = keyFile)
  BY <1>6 DEF Write, Goto
<1>7. ASSUME NEW p \in Process, OpenTmp(p)
      PROVE  KeyInv' /\ (keyFile \in Key => keyFile' = keyFile)
  BY <1>7 DEF OpenTmp, Goto
<1>8. ASSUME NEW p \in Process, WriteTmp(p)
      PROVE  KeyInv' /\ (keyFile \in Key => keyFile' = keyFile)
  <2>1. seed[p] = keyFile /\ seed[p] \in Key
    BY <1>8 DEF WriteTmp
  <2> QED BY <1>8, <2>1 DEF WriteTmp, Goto
<1>9. ASSUME NEW p \in Process, Rename(p)
      PROVE  KeyInv' /\ (keyFile \in Key => keyFile' = keyFile)
  <2>1. CASE tmp = Absent
    BY <1>9, <2>1 DEF Rename, Exit, Goto
  <2>2. CASE tmp # Absent
    BY <1>9, <2>2 DEF Rename
  <2> QED BY <2>1, <2>2
<1>10. ASSUME NEW p \in Process, Crash(p)
       PROVE  KeyInv' /\ (keyFile \in Key => keyFile' = keyFile)
  BY <1>10 DEF Crash, Exit, Goto
<1>11. ASSUME NEW r \in Reader, Pin(r)
       PROVE  KeyInv' /\ (keyFile \in Key => keyFile' = keyFile)
  BY <1>11 DEF Pin
<1> QED
  BY <1>1, <1>2, <1>3, <1>4, <1>5, <1>6, <1>7, <1>8, <1>9, <1>10, <1>11 DEF KeyNext, Start

\* The invariant of the key files holds in every reachable state.
LEMMA KeyInvAlways == KeySpec => []KeyInv
<1>1. KeyInit => KeyInv
  BY KeyInvInit
<1>2. KeyInv /\ [KeyNext]_keyVars => KeyInv'
  BY KeyInvStep
<1> QED BY <1>1, <1>2, PTL DEF KeySpec

\* The files and processes are well formed in every reachable state.
THEOREM KeyTypeCorrect == KeySpec => []KeyTypeOK
<1>1. KeyInv => KeyTypeOK
  BY DEF KeyInv
<1> QED BY <1>1, KeyInvAlways, PTL

\* Whoever publishes has the key of the file, and nobody ever pinned another
\* (readOrCreatePrivateFile never overwrites an existing key).
THEOREM IdentityCorrect == KeySpec => []OneIdentity
<1>1. KeyInv => OneIdentity
  BY DEF KeyInv
<1> QED BY <1>1, KeyInvAlways, PTL

\* The key in the file is never replaced (the exclusive creation).
THEOREM KeyKept == KeySpec => KeyIsKept
<1>1. KeyInv /\ [KeyNext]_keyVars => [(keyFile \in Key) => (keyFile' = keyFile)]_keyVars
  BY KeyInvStep
<1> QED BY <1>1, KeyInvAlways, PTL DEF KeySpec, KeyIsKept

\* One process at a time keeps the single publisher through every file call
\* (publishPublicKey, and the service manager that restarts the component).
LEMMA OnePublisherStep ==
    ASSUME KeyInv, OnePublisher, [KeyNext]_keyVars
    PROVE  OnePublisher'
<1> SUFFICES ASSUME ~overlap'
             PROVE  /\ \A p, q \in Process : pc'[p] # "down" /\ pc'[q] # "down" => p = q
                    /\ \A p \in Process : pc'[p] \notin {"moved", "gone"}
                    /\ \A p \in Process : pc'[p] = "rename" => tmp' \in Key
                    /\ trust' # Empty
  BY DEF OnePublisher
<1> USE KeyFilesAssumption DEF KeyInv, KeyTypeOK, HoldsSeed, Publishing, OnePublisher
<1>1. CASE UNCHANGED keyVars
  BY <1>1 DEF keyVars
<1>2. ASSUME NEW p \in Process, Start(p) \/ Crash(p)
      PROVE  OnePublisher'
  <2>1. CASE Launch(p)
    BY <2>1 DEF Launch, Goto
  <2>2. CASE Stat(p)
    BY <2>2 DEF Stat, Goto
  <2>3. CASE Read(p)
    BY <2>3 DEF Read, Exit, Goto
  <2>4. CASE OpenExclusively(p)
    BY <2>4 DEF OpenExclusively, Exit, Goto
  <2>5. CASE Write(p)
    BY <2>5 DEF Write, Goto
  <2>6. CASE OpenTmp(p)
    BY <2>6 DEF OpenTmp, Goto
  <2>7. CASE WriteTmp(p)
    BY <2>7 DEF WriteTmp, Goto
  <2>8. CASE Rename(p)
    BY <2>8 DEF Rename, Exit, Goto
  <2>9. CASE Crash(p)
    BY <2>9 DEF Crash, Exit, Goto
  <2> QED BY <1>2, <2>1, <2>2, <2>3, <2>4, <2>5, <2>6, <2>7, <2>8, <2>9 DEF Start
<1>3. ASSUME NEW r \in Reader, Pin(r)
      PROVE  OnePublisher'
  BY <1>3 DEF Pin
<1> QED BY <1>1, <1>2, <1>3 DEF KeyNext

\* The trust file is never seen half-written as long as one process publishes
\* at a time (the rename of publishPublicKey).
THEOREM TrustFileIsWhole == KeySpec => []HalfWrittenOnlyByTwo
<1>1. KeyInit => OnePublisher
  BY KeyFilesAssumption DEF KeyInit, OnePublisher
<1>2. KeyInv /\ OnePublisher /\ [KeyNext]_keyVars => OnePublisher'
  BY OnePublisherStep
<1>3. OnePublisher => HalfWrittenOnlyByTwo
  BY DEF OnePublisher, HalfWrittenOnlyByTwo
<1> QED BY <1>1, <1>2, <1>3, KeyInvAlways, PTL DEF KeySpec

=============================================================================
