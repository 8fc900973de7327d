-------------------------- MODULE AgentSessionsProofs --------------------------
(***************************************************************************)
(* Sessions of the agent never share an invocation id, and read no evidence *)
(* but their own, for any number of sessions and requests in flight, and   *)
(* whatever expires or is evicted meanwhile.                               *)
(***************************************************************************)
EXTENDS AgentSessions, FiniteSetTheorems, SequenceTheorems, TLAPS

\* The owners map is never too small for the ids in use.
OwnersAreKept == IsFiniteSet(Invocation) /\ Cardinality(Invocation) <= MaxOwned

-----------------------------------------------------------------------------
OwnersAreTyped ==
    /\ owners \in Seq(Invocation \X (Session \cup {Retired}))
    /\ invocations \in [Session -> SUBSET Invocation]

\* A request in flight holds its session object, and an id once it claimed.
DemosAreTyped ==
    /\ demo \in [Demo -> [pc : {"idle", "body", "claimed"}, session : Session \cup {Nobody},
                          invocation : Invocation \cup {Nobody}]]
    /\ \A d \in Demo : /\ demo[d].pc # "idle" => demo[d].session \in Session
                       /\ demo[d].pc = "claimed" => demo[d].invocation \in Invocation

\* The first record of an invocation stays, and a session's decisions are about it.
DecidedWereRecorded ==
    /\ decided \in [Session -> SUBSET Invocation]
    /\ recorded \in [Invocation -> Session \cup {Nobody}]
    /\ \A s \in Session, i \in Invocation : i \in decided[s] => recorded[i] = s

\* The live keys are among those handed out.
SessionsAreTyped ==
    /\ issued \subseteq Session /\ installed \subseteq Session
    /\ sessions \in Seq(issued) /\ expired \in 0..Len(sessions)

SessionInv == OwnersAreTyped /\ DemosAreTyped /\ DecidedWereRecorded /\ SessionsAreTyped

\* The Map has one entry for an id, and one for every id that was ever claimed.
OneEntry == \A k, l \in DOMAIN owners : owners[k][1] = owners[l][1] => k = l
ClaimsAreRemembered ==
    \A s \in Session : \A i \in invocations[s] : \E k \in DOMAIN owners : owners[k][1] = i

OwnerInv == OneEntry /\ ClaimsAreRemembered /\ ClaimedOnce

-----------------------------------------------------------------------------
\* Retiring the ended sessions' entries changes who owns an id, never which
\* ids have an owner.
LEMMA RetireKeepsIds ==
    ASSUME OwnersAreTyped, NEW S, Retire(S)
    PROVE  /\ owners' \in Seq(Invocation \X (Session \cup {Retired}))
           /\ DOMAIN owners' = DOMAIN owners
           /\ \A k \in DOMAIN owners : owners'[k][1] = owners[k][1]
<1>1. /\ Len(owners) \in Nat /\ DOMAIN owners = 1..Len(owners)
      /\ \A k \in 1..Len(owners) : owners[k] \in Invocation \X (Session \cup {Retired})
  BY LenProperties, ElementOfSeq DEF OwnersAreTyped
<1>2. /\ DOMAIN owners' = DOMAIN owners
      /\ \A k \in DOMAIN owners :
            owners'[k] = owners[k] \/ owners'[k] = <<owners[k][1], Retired>>
  BY DEF Retire
<1>3. \A k \in DOMAIN owners : /\ owners'[k] \in Invocation \X (Session \cup {Retired})
                               /\ owners'[k][1] = owners[k][1]
  BY <1>1, <1>2
<1>4. owners' = [k \in 1..Len(owners) |-> owners'[k]]
  BY <1>1, <1>2 DEF Retire
<1>5. owners' \in Seq(Invocation \X (Session \cup {Retired}))
  BY <1>1, <1>3, <1>4, IsASeq
<1> QED BY <1>2, <1>3, <1>5

\* The map has no entry for an id that nobody owns.
LEMMA UnownedHasNoEntry ==
    ASSUME OwnersAreTyped, NEW i, OwnerOf(i) = Nobody
    PROVE  \A k \in DOMAIN owners : owners[k][1] # i
<1> SUFFICES ASSUME NEW k \in DOMAIN owners, owners[k][1] = i
             PROVE  FALSE
  OBVIOUS
<1> DEFINE found == {o \in ToSet(owners) : o[1] = i}
<1>1. \A l \in DOMAIN owners : owners[l] \in Invocation \X (Session \cup {Retired})
  BY LenProperties, ElementOfSeq DEF OwnersAreTyped
<1>2. owners[k] \in found
  BY DEF ToSet
<1>3. found # {} /\ (CHOOSE o \in found : TRUE) \in found
  BY <1>2
<1>4. (CHOOSE o \in found : TRUE)[2] = Nobody
  BY <1>3 DEF OwnerOf
<1>5. (CHOOSE o \in found : TRUE)[2] \in Session \cup {Retired}
  <2>1. PICK l \in DOMAIN owners : (CHOOSE o \in found : TRUE) = owners[l]
    BY <1>3 DEF ToSet
  <2> QED BY <2>1, <1>1
<1> QED BY <1>4, <1>5, SessionsAssumption

\* A claim of an id that nobody owns appends its entry, and forgets no other.
LEMMA ClaimAppends ==
    ASSUME OwnersAreKept, OwnersAreTyped, OneEntry, NEW i \in Invocation, NEW s \in Session,
           \A k \in DOMAIN owners : owners[k][1] # i
    PROVE  Remembered(Append(owners, <<i, s>>)) = Append(owners, <<i, s>>)
<1> DEFINE o == Append(owners, <<i, s>>)
           id == [k \in 1..Len(o) |-> o[k][1]]
<1>1. /\ Len(owners) \in Nat /\ DOMAIN owners = 1..Len(owners)
      /\ \A k \in 1..Len(owners) : owners[k] \in Invocation \X (Session \cup {Retired})
  BY LenProperties, ElementOfSeq DEF OwnersAreTyped
<1>2. /\ o \in Seq(Invocation \X (Session \cup {Retired}))
      /\ Len(o) = Len(owners) + 1
      /\ \A k \in 1..Len(owners) : o[k] = owners[k]
      /\ o[Len(owners) + 1] = <<i, s>>
  BY AppendProperties DEF OwnersAreTyped
<1>3. \A k \in 1..Len(o) : \/ k \in 1..Len(owners) /\ id[k] = owners[k][1]
                           \/ k = Len(owners) + 1 /\ id[k] = i
  <2>1. TAKE k \in 1..Len(o)
  <2>2. id[k] = o[k][1]
    OBVIOUS
  <2>3. k \in 1..Len(owners) \/ k = Len(owners) + 1
    BY <1>1, <1>2
  <2> HIDE DEF o, id
  <2> QED BY <1>2, <2>2, <2>3
<1>4. id \in [1..Len(o) -> Invocation]
  BY <1>1, <1>3
<1>5. \A k, l \in 1..Len(o) : id[k] = id[l] => k = l
  BY <1>1, <1>3 DEF OneEntry
<1>6. id \in Injection(1..Len(o), Invocation)
  BY <1>4, <1>5 DEF Injection, IsInjective
<1>7. Cardinality(1..Len(o)) <= Cardinality(Invocation)
  <2> HIDE DEF id, o
  <2> QED BY <1>6, FS_Injection DEF OwnersAreKept
<1>8. Cardinality(1..Len(o)) = Len(o)
  <2>1. Len(o) \in Nat \ {0}
    BY <1>1, <1>2
  <2> HIDE DEF o
  <2>2. Cardinality(1..Len(o)) = IF 1 > Len(o) THEN 0 ELSE Len(o) - 1 + 1
    BY <2>1, FS_Interval
  <2> QED BY <2>1, <2>2
<1>9. Cardinality(Invocation) \in Nat /\ MaxOwned \in Nat
  BY FS_CardinalityType, SessionsAssumption DEF OwnersAreKept
<1>10. ~(Len(o) > MaxOwned)
  BY <1>1, <1>2, <1>7, <1>8, <1>9 DEF OwnersAreKept
<1>11. Remembered(o) = SubSeq(o, 1, Len(o))
  BY <1>10 DEF Remembered, Newest
<1> QED BY <1>2, <1>11, SubSeqFull

\* Keeping the newest entries keeps a sequence of the same things.
LEMMA NewestIsTyped ==
    ASSUME NEW T, NEW o \in Seq(T), NEW n \in Nat
    PROVE  Newest(o, n) \in Seq(T)
<1>1. Len(o) \in Nat
  BY LenProperties
<1> DEFINE first == IF Len(o) > n THEN Len(o) - n + 1 ELSE 1
<1>2. first \in 1..Len(o) + 1
  BY <1>1
<1>3. \A k \in first..Len(o) : o[k] \in T
  BY <1>1, <1>2, ElementOfSeq
<1>4. SubSeq(o, first, Len(o)) \in Seq(T)
  BY <1>1, <1>2, <1>3, SubSeqProperties
<1> QED BY <1>4 DEF Newest

\* What purging leaves is still sessions that were issued.
LEMMA UnexpiredIsTyped ==
    ASSUME SessionsAreTyped
    PROVE  Unexpired \in Seq(issued)
<1>1. Len(sessions) \in Nat /\ expired \in 0..Len(sessions)
  BY LenProperties DEF SessionsAreTyped
<1>2. \A k \in expired + 1..Len(sessions) : sessions[k] \in issued
  BY <1>1, ElementOfSeq DEF SessionsAreTyped
<1> QED BY <1>1, <1>2, SubSeqProperties DEF Unexpired, SessionsAreTyped

\* The calls that may evict.
Evicts == (Prune /\ UNCHANGED issued) \/ \E s \in Session : Create(s)

\* Whoever is in the Map after a step was not evicted by it.
LEMMA OthersAreEvicted ==
    ASSUME SessionsAreTyped, Evicts
    PROVE  \E S : /\ Retire(S) /\ \A t \in ToSet(sessions') : t \notin S
                  /\ sessions' \in Seq(issued') /\ expired' \in 0..Len(sessions')
<1>1. CASE Prune /\ UNCHANGED issued
  <2>1. Retire(ToSet(sessions) \ ToSet(Unexpired)) /\ sessions' = Unexpired /\ expired' = 0
    BY <1>1 DEF Prune, Keep
  <2>2. sessions' \in Seq(issued') /\ Len(sessions') \in Nat
    BY <1>1, <2>1, UnexpiredIsTyped, LenProperties
  <2> QED BY <2>1, <2>2
<1>2. ASSUME NEW s \in Session, Create(s)
      PROVE  \E S : /\ Retire(S) /\ \A t \in ToSet(sessions') : t \notin S
                    /\ sessions' \in Seq(issued') /\ expired' \in 0..Len(sessions')
  <2> DEFINE kept == Newest(Unexpired, MaxSessions - 1)
             S == ToSet(sessions) \ ToSet(kept)
  <2>1. /\ s \notin issued /\ issued' = issued \cup {s}
        /\ sessions' = Append(kept, s) /\ Retire(S) /\ expired' = 0
    BY <1>2 DEF Create, Keep
  <2>2. MaxSessions - 1 \in Nat
    BY SessionsAssumption
  <2>3. kept \in Seq(issued)
    BY <2>2, UnexpiredIsTyped, NewestIsTyped
  <2> HIDE DEF kept
  <2>4. kept \in Seq(issued') /\ s \in issued'
    <3>1. Len(kept) \in Nat /\ kept = [k \in 1..Len(kept) |-> kept[k]]
          /\ \A k \in 1..Len(kept) : kept[k] \in issued
      BY <2>3, LenProperties, ElementOfSeq
    <3>2. [k \in 1..Len(kept) |-> kept[k]] \in Seq(issued')
      BY <2>1, <3>1, IsASeq
    <3> QED BY <2>1, <3>1, <3>2
  <2>5. /\ sessions' \in Seq(issued') /\ Len(sessions') = Len(kept) + 1
        /\ \A k \in 1..Len(kept) : sessions'[k] = kept[k]
        /\ sessions'[Len(kept) + 1] = s
    BY <2>1, <2>4, AppendProperties
  <2>6. /\ Len(kept) \in Nat /\ DOMAIN kept = 1..Len(kept)
        /\ DOMAIN sessions' = 1..Len(kept) + 1
    BY <2>3, <2>5, LenProperties
  <2>7. \A t \in ToSet(sessions') : t \in ToSet(kept) \/ t = s
    BY <2>5, <2>6 DEF ToSet
  <2>8. s \notin ToSet(sessions)
    <3>1. \A k \in DOMAIN sessions : sessions[k] \in issued
      BY LenProperties, ElementOfSeq DEF SessionsAreTyped
    <3> QED BY <2>1, <3>1 DEF ToSet
  <2> QED BY <2>1, <2>5, <2>6, <2>7, <2>8
<1> QED BY <1>1, <1>2 DEF Evicts

-----------------------------------------------------------------------------
(* A session's sight is of its own requests, with any bound.               *)

\* No session, no request.
LEMMA InitSessionInv == SessionsInit => SessionInv
<1> SUFFICES ASSUME SessionsInit
             PROVE  SessionInv
  OBVIOUS
<1>1. OwnersAreTyped
  BY EmptySeq DEF SessionsInit, OwnersAreTyped
<1>2. DemosAreTyped
  BY DEF SessionsInit, DemosAreTyped, IdleDemo
<1>3. DecidedWereRecorded
  BY DEF SessionsInit, DecidedWereRecorded
<1>4. SessionsAreTyped
  BY EmptySeq DEF SessionsInit, SessionsAreTyped
<1> QED BY <1>1, <1>2, <1>3, <1>4 DEF SessionInv

\* Every handler keeps what is known of the sessions.
LEMMA SessionStep == SessionInv /\ [SessionsNext]_sessionVars => SessionInv'
<1> SUFFICES ASSUME SessionInv, [SessionsNext]_sessionVars
             PROVE  SessionInv'
  OBVIOUS
<1>0. OwnersAreTyped /\ DemosAreTyped /\ DecidedWereRecorded /\ SessionsAreTyped
  BY DEF SessionInv
<1>1. CASE UNCHANGED sessionVars
  BY <1>0, <1>1 DEF SessionInv, sessionVars, OwnersAreTyped, DemosAreTyped,
                    DecidedWereRecorded, SessionsAreTyped
<1>2. CASE Expire
  <2>1. SessionsAreTyped'
    BY <1>0, <1>2, LenProperties DEF Expire, SessionsAreTyped
  <2> QED BY <1>0, <1>2, <2>1
          DEF Expire, SessionInv, OwnersAreTyped, DemosAreTyped, DecidedWereRecorded
<1>3. ASSUME NEW s \in Session, Create(s) \/ InstallPermit(s)
      PROVE  SessionInv'
  <2>1. /\ Evicts
        /\ UNCHANGED <<invocations, decided, demo, recorded>>
        /\ issued' \subseteq Session /\ installed' \subseteq Session
    <3>1. CASE Create(s)
      <4>1. Evicts
        BY <3>1 DEF Evicts
      <4>2. /\ issued' = issued \cup {s}
            /\ UNCHANGED <<installed, invocations, decided, demo, recorded>>
        BY <3>1 DEF Create
      <4> QED BY <1>0, <4>1, <4>2 DEF SessionsAreTyped
    <3>2. CASE InstallPermit(s)
      <4>1. /\ Prune /\ installed' = installed \cup {s}
            /\ UNCHANGED <<issued, invocations, decided, demo, recorded>>
        BY <3>2 DEF InstallPermit
      <4>2. Evicts
        BY <4>1 DEF Evicts
      <4> QED BY <1>0, <4>1, <4>2 DEF SessionsAreTyped
    <3> QED BY <1>3, <3>1, <3>2
  <2>2. /\ \E S : Retire(S)
        /\ sessions' \in Seq(issued') /\ expired' \in 0..Len(sessions')
    BY <1>0, <2>1, OthersAreEvicted
  <2>3. OwnersAreTyped'
    BY <1>0, <2>1, <2>2, RetireKeepsIds DEF OwnersAreTyped
  <2> QED BY <1>0, <2>1, <2>2, <2>3
          DEF SessionInv, DemosAreTyped, DecidedWereRecorded, SessionsAreTyped
<1>4. ASSUME NEW s \in Session, NEW d \in Demo, Authenticate(d, s)
      PROVE  SessionInv'
  <2>1. Prune /\ UNCHANGED <<issued, installed, invocations, decided, recorded>>
    BY <1>4 DEF Authenticate
  <2>2. /\ \E S : Retire(S)
        /\ sessions' \in Seq(issued') /\ expired' \in 0..Len(sessions')
    BY <1>0, <2>1, OthersAreEvicted DEF Evicts
  <2>3. OwnersAreTyped'
    BY <1>0, <2>1, <2>2, RetireKeepsIds DEF OwnersAreTyped
  <2>4. DemosAreTyped'
    BY <1>0, <1>4 DEF Authenticate, DemosAreTyped, IdleDemo
  <2> QED BY <1>0, <2>1, <2>2, <2>3, <2>4
          DEF SessionInv, DecidedWereRecorded, SessionsAreTyped
<1>5. ASSUME NEW d \in Demo, NEW i \in Invocation, Claim(d, i)
      PROVE  SessionInv'
  <2> DEFINE s == demo[d].session
  <2>1. s \in Session
    BY <1>0, <1>5 DEF Claim, DemosAreTyped
  <2>2. OwnersAreTyped'
    <3>1. CASE UNCHANGED <<owners, invocations>>
      BY <1>0, <3>1 DEF OwnersAreTyped
    <3>2. CASE /\ invocations' = [invocations EXCEPT ![s] = @ \cup {i}]
               /\ owners' = Remembered(Append(owners, <<i, s>>))
      <4>1. Append(owners, <<i, s>>) \in Seq(Invocation \X (Session \cup {Retired}))
        BY <1>0, <2>1, AppendProperties DEF OwnersAreTyped
      <4>2. owners' \in Seq(Invocation \X (Session \cup {Retired}))
        BY <3>2, <4>1, NewestIsTyped, SessionsAssumption DEF Remembered
      <4> QED BY <1>0, <2>1, <3>2, <4>2 DEF OwnersAreTyped
    <3> QED BY <1>5, <3>1, <3>2 DEF Claim
  <2>3. DemosAreTyped'
    BY <1>0, <1>5 DEF Claim, DemosAreTyped, IdleDemo
  <2>4. DecidedWereRecorded'
    BY <1>0, <1>5 DEF Claim, DecidedWereRecorded
  <2>5. SessionsAreTyped'
    BY <1>0, <1>5 DEF Claim, SessionsAreTyped
  <2> QED BY <2>2, <2>3, <2>4, <2>5 DEF SessionInv
<1>6. ASSUME NEW d \in Demo, Decided(d) \/ Refused(d)
      PROVE  SessionInv'
  <2> DEFINE s == demo[d].session
             i == demo[d].invocation
  <2>1. s \in Session /\ i \in Invocation
    BY <1>0, <1>6 DEF Decided, Refused, DemosAreTyped
  <2>2. OwnersAreTyped'
    BY <1>0, <1>6 DEF Decided, Refused, OwnersAreTyped
  <2>3. DemosAreTyped'
    BY <1>0, <1>6 DEF Decided, Refused, DemosAreTyped, IdleDemo
  <2>4. DecidedWereRecorded'
    <3>1. CASE Decided(d)
      <4>1. recorded[i] \in {Nobody, s} /\ recorded' = [recorded EXCEPT ![i] = s]
        BY <3>1 DEF Decided
      <4>2. decided' = decided \/ decided' = [decided EXCEPT ![s] = @ \cup {i}]
        BY <3>1 DEF Decided, MarkDecided
      <4>3. \A t \in Session, j \in Invocation :
                j \in decided'[t] => j \in decided[t] \/ (t = s /\ j = i)
        BY <1>0, <2>1, <4>2 DEF DecidedWereRecorded
      <4>4. \A t \in Session, j \in Invocation : j \in decided[t] => recorded'[j] = t
        BY <1>0, <2>1, <4>1, SessionsAssumption DEF DecidedWereRecorded
      <4>5. recorded'[i] = s /\ recorded' \in [Invocation -> Session \cup {Nobody}]
        BY <1>0, <2>1, <4>1 DEF DecidedWereRecorded
      <4>6. decided' \in [Session -> SUBSET Invocation]
        BY <1>0, <2>1, <4>2 DEF DecidedWereRecorded
      <4> QED BY <4>3, <4>4, <4>5, <4>6 DEF DecidedWereRecorded
    <3>2. CASE Refused(d)
      BY <1>0, <2>1, <3>2, SessionsAssumption DEF Refused, DecidedWereRecorded
    <3> QED BY <1>6, <3>1, <3>2
  <2>5. SessionsAreTyped'
    BY <1>0, <1>6 DEF Decided, Refused, SessionsAreTyped
  <2> QED BY <2>2, <2>3, <2>4, <2>5 DEF SessionInv
<1> QED BY <1>1, <1>2, <1>3, <1>4, <1>5, <1>6 DEF SessionsNext

\* Types of the sessions, their claims and the requests in flight: live keys
\* were handed out, no more have expired than there are, and every owner is a
\* session or retired (SessionStore, runDemo).
THEOREM SessionsTypeCorrect == SessionsSpec => []SessionsTypeOK
<1>1. SessionInv => SessionsTypeOK
  <2> SUFFICES ASSUME SessionInv PROVE SessionsTypeOK
    OBVIOUS
  <2>1. sessions \in Seq(Session)
    <3>1. /\ Len(sessions) \in Nat /\ sessions = [k \in 1..Len(sessions) |-> sessions[k]]
          /\ \A k \in 1..Len(sessions) : sessions[k] \in Session
      BY LenProperties, ElementOfSeq DEF SessionInv, SessionsAreTyped
    <3>2. [k \in 1..Len(sessions) |-> sessions[k]] \in Seq(Session)
      BY <3>1, IsASeq
    <3> QED BY <3>1, <3>2
  <2> QED BY <2>1 DEF SessionInv, OwnersAreTyped, DemosAreTyped, DecidedWereRecorded,
                      SessionsAreTyped, SessionsTypeOK
<1> QED BY <1>1, InitSessionInv, SessionStep, PTL DEF SessionsSpec

\* A session reads the evidence of its own requests only, whatever the owners
\* map forgot (canReadEvidence, markDecided).
THEOREM OwnEvidence == SessionsSpec => []EvidenceIsOwn
<1>1. SessionInv => EvidenceIsOwn
  BY DEF SessionInv, DecidedWereRecorded, EvidenceIsOwn, CanReadEvidence
<1> QED BY <1>1, InitSessionInv, SessionStep, PTL DEF SessionsSpec

-----------------------------------------------------------------------------
(* An id has one session for ever, as long as no owner is forgotten.       *)

\* No owner yet.
LEMMA InitOwnerInv == SessionsInit => OwnerInv
BY DEF SessionsInit, OwnerInv, OneEntry, ClaimsAreRemembered, ClaimedOnce

\* A step that keeps the ids of the entries and the sessions' claims.
LEMMA SameClaims ==
    ASSUME OwnerInv, UNCHANGED invocations, DOMAIN owners' = DOMAIN owners,
           \A k \in DOMAIN owners : owners'[k][1] = owners[k][1]
    PROVE  OwnerInv'
BY DEF OwnerInv, OneEntry, ClaimsAreRemembered, ClaimedOnce

\* claimInvocation gives an id to a session only if none ever had it.
LEMMA ClaimKeepsOwners ==
    ASSUME OwnersAreKept, SessionInv, OwnerInv, NEW d \in Demo, NEW i \in Invocation, Claim(d, i)
    PROVE  OwnerInv'
<1> DEFINE s == demo[d].session
<1>0. OwnersAreTyped /\ DemosAreTyped /\ OneEntry
  BY DEF SessionInv, OwnerInv
<1>1. s \in Session
  BY <1>0 DEF Claim, DemosAreTyped
<1>2. CASE UNCHANGED <<owners, invocations>>
  BY <1>2, SameClaims
<1>3. CASE /\ ClaimResult(s, i) = "claimed"
           /\ invocations' = [invocations EXCEPT ![s] = @ \cup {i}]
           /\ owners' = Remembered(Append(owners, <<i, s>>))
  <2>1. OwnerOf(i) = Nobody
    BY <1>1, <1>3, SessionsAssumption DEF ClaimResult
  <2>2. \A k \in DOMAIN owners : owners[k][1] # i
    BY <1>0, <2>1, UnownedHasNoEntry
  <2>3. owners' = Append(owners, <<i, s>>)
    BY <1>0, <1>1, <1>3, <2>2, ClaimAppends
  <2>4. Len(owners) \in Nat /\ DOMAIN owners = 1..Len(owners)
    BY <1>0, LenProperties DEF OwnersAreTyped
  <2>5. /\ DOMAIN owners' = 1..Len(owners) + 1
        /\ \A k \in 1..Len(owners) : owners'[k] = owners[k]
        /\ owners'[Len(owners) + 1] = <<i, s>>
    BY <1>0, <1>1, <2>3, AppendProperties, LenProperties DEF OwnersAreTyped
  <2>6. OneEntry'
    BY <1>0, <2>2, <2>4, <2>5 DEF OneEntry
  <2>7. \A t \in Session : /\ i \notin invocations[t]
                           /\ invocations'[t] = IF t = s THEN invocations[t] \cup {i}
                                                ELSE invocations[t]
    BY <1>0, <1>1, <1>3, <2>2 DEF OwnerInv, ClaimsAreRemembered, OwnersAreTyped
  <2>8. ClaimsAreRemembered'
    <3> SUFFICES ASSUME NEW t \in Session, NEW j \in invocations'[t]
                 PROVE  \E k \in DOMAIN owners' : owners'[k][1] = j
      BY DEF ClaimsAreRemembered
    <3>1. CASE j = i
      BY <2>4, <2>5, <3>1
    <3>2. CASE j # i
      <4>1. j \in invocations[t]
        BY <2>7, <3>2
      <4>2. PICK k \in DOMAIN owners : owners[k][1] = j
        BY <4>1 DEF OwnerInv, ClaimsAreRemembered
      <4> QED BY <2>4, <2>5, <4>2
    <3> QED BY <3>1, <3>2
  <2>9. ClaimedOnce'
    <3> SUFFICES ASSUME NEW t \in Session, NEW u \in Session, t # u,
                        NEW j \in invocations'[t], j \in invocations'[u]
                 PROVE  FALSE
      BY DEF ClaimedOnce
    <3>1. j = i => t = s /\ u = s
      BY <2>7
    <3>2. j # i => j \in invocations[t] /\ j \in invocations[u]
      BY <2>7
    <3> QED BY <3>1, <3>2 DEF OwnerInv, ClaimedOnce
  <2> QED BY <2>6, <2>8, <2>9 DEF OwnerInv
<1> QED BY <1>2, <1>3 DEF Claim

\* Every handler keeps the owners apart while none is forgotten.
LEMMA OwnerStep ==
    ASSUME OwnersAreKept, SessionInv, OwnerInv, [SessionsNext]_sessionVars
    PROVE  OwnerInv'
<1>0. OwnersAreTyped
  BY DEF SessionInv
<1>1. CASE UNCHANGED <<owners, invocations>>
  BY <1>1, SameClaims
<1>2. CASE (\E S : Retire(S)) /\ UNCHANGED invocations
  BY <1>0, <1>2, RetireKeepsIds, SameClaims
<1>3. CASE \E d \in Demo, i \in Invocation : Claim(d, i)
  BY <1>3, ClaimKeepsOwners
<1>4. CASE UNCHANGED sessionVars
  BY <1>1, <1>4 DEF sessionVars
<1>5. CASE Expire
  BY <1>1, <1>5 DEF Expire
<1>6. CASE \E s \in Session : Create(s) \/ InstallPermit(s) \/ \E d \in Demo : Authenticate(d, s)
  BY <1>2, <1>6 DEF Create, InstallPermit, Authenticate, Prune, Keep
<1>7. CASE \E d \in Demo : Decided(d) \/ Refused(d)
  BY <1>1, <1>7 DEF Decided, Refused
<1> QED BY <1>3, <1>4, <1>5, <1>6, <1>7 DEF SessionsNext

\* No two sessions ever claim the same id, however many expired or were
\* evicted, and whatever requests went on without their session
\* (claimInvocation, #evict).
THEOREM OwnershipCorrect == OwnersAreKept /\ SessionsSpec => []ClaimedOnce
<1>1. OwnerInv => ClaimedOnce
  BY DEF OwnerInv
<1>2. OwnersAreKept /\ SessionsInit => OwnersAreKept /\ SessionInv /\ OwnerInv
  BY InitSessionInv, InitOwnerInv
<1>3. OwnersAreKept /\ SessionInv /\ OwnerInv /\ [SessionsNext]_sessionVars
        => (OwnersAreKept /\ SessionInv /\ OwnerInv)'
  BY SessionStep, OwnerStep DEF OwnersAreKept
<1> QED BY <1>1, <1>2, <1>3, PTL DEF SessionsSpec

-----------------------------------------------------------------------------
(* What a live session could read it can read, as long as no owner is       *)
(* forgotten.                                                              *)

\* With one entry per id, an entry is what looking its id up finds.
LEMMA EntryIsOwner ==
    OwnersAreTyped /\ OneEntry =>
        \A k \in DOMAIN owners : OwnerOf(owners[k][1]) = owners[k][2]
<1> SUFFICES ASSUME OneEntry, NEW k \in DOMAIN owners
             PROVE  OwnerOf(owners[k][1]) = owners[k][2]
  OBVIOUS
<1> DEFINE found == {o \in ToSet(owners) : o[1] = owners[k][1]}
<1>1. owners[k] \in found
  BY DEF ToSet
<1>2. \A o \in found : o = owners[k]
  BY DEF ToSet, OneEntry
<1>3. (CHOOSE o \in found : TRUE) = owners[k]
  BY <1>1, <1>2
<1> QED BY <1>1, <1>3 DEF OwnerOf

\* An owner that is found has an entry.
LEMMA OwnerHasEntry ==
    ASSUME OwnersAreTyped, NEW i, NEW s \in Session, OwnerOf(i) = s
    PROVE  \E k \in DOMAIN owners : owners[k] = <<i, s>>
<1> DEFINE found == {o \in ToSet(owners) : o[1] = i}
<1>1. found # {}
  BY SessionsAssumption DEF OwnerOf
<1>2. (CHOOSE o \in found : TRUE) \in found /\ (CHOOSE o \in found : TRUE)[2] = s
  BY <1>1 DEF OwnerOf
<1>3. PICK k \in DOMAIN owners : owners[k][1] = i /\ owners[k][2] = s
  BY <1>2 DEF ToSet
<1>4. owners[k] \in Invocation \X (Session \cup {Retired})
  BY LenProperties, ElementOfSeq DEF OwnersAreTyped
<1> QED BY <1>3, <1>4

\* The entry of a session that is live after the step stays.
LEMMA LiveEntriesStay ==
    ASSUME OwnersAreKept, SessionInv, OwnerInv, [SessionsNext]_sessionVars,
           NEW k \in DOMAIN owners, NEW s \in Session, owners[k][2] = s, s \in ToSet(sessions')
    PROVE  k \in DOMAIN owners' /\ owners'[k] = owners[k]
<1>0. OwnersAreTyped /\ DemosAreTyped /\ SessionsAreTyped /\ OneEntry
  BY DEF SessionInv, OwnerInv
<1>1. CASE UNCHANGED owners
  BY <1>1
<1>2. ASSUME NEW S, Retire(S), s \notin S
      PROVE  k \in DOMAIN owners' /\ owners'[k] = owners[k]
  BY <1>2 DEF Retire
<1>3. CASE Evicts
  <2>1. PICK S : Retire(S) /\ \A u \in ToSet(sessions') : u \notin S
    BY <1>0, <1>3, OthersAreEvicted
  <2> QED BY <1>2, <2>1
<1>4. ASSUME NEW d \in Demo, NEW i \in Invocation, Claim(d, i)
      PROVE  k \in DOMAIN owners' /\ owners'[k] = owners[k]
  <2> DEFINE t == demo[d].session
  <2>1. t \in Session
    BY <1>0, <1>4 DEF Claim, DemosAreTyped
  <2>2. CASE /\ ClaimResult(t, i) = "claimed"
             /\ owners' = Remembered(Append(owners, <<i, t>>))
    <3>1. OwnerOf(i) = Nobody
      BY <2>1, <2>2, SessionsAssumption DEF ClaimResult
    <3>2. owners' = Append(owners, <<i, t>>)
      BY <1>0, <2>1, <2>2, <3>1, UnownedHasNoEntry, ClaimAppends
    <3> QED BY <1>0, <2>1, <3>2, AppendProperties, LenProperties DEF OwnersAreTyped
  <2> QED BY <1>1, <1>4, <2>2 DEF Claim
<1>5. CASE UNCHANGED sessionVars \/ Expire \/ \E d \in Demo : Decided(d) \/ Refused(d)
  BY <1>1, <1>5 DEF sessionVars, Expire, Decided, Refused
<1>6. CASE \E t \in Session : Create(t) \/ InstallPermit(t) \/ \E d \in Demo : Authenticate(d, t)
  <2>1. Evicts
    BY <1>6 DEF Evicts, InstallPermit, Authenticate
  <2> QED BY <1>3, <2>1
<1>7. CASE \E d \in Demo, i \in Invocation : Claim(d, i)
  BY <1>4, <1>7
<1> QED BY <1>5, <1>6, <1>7 DEF SessionsNext

\* A live session keeps the evidence it could read, whoever claims, expires or
\* is evicted (claimInvocation, markDecided, #evict).
THEOREM EvidenceKept == OwnersAreKept /\ SessionsSpec => EvidenceStaysReadable
<1>1. OwnersAreKept /\ SessionsInit => OwnersAreKept /\ SessionInv /\ OwnerInv
  BY InitSessionInv, InitOwnerInv
<1>2. OwnersAreKept /\ SessionInv /\ OwnerInv /\ [SessionsNext]_sessionVars
        => (OwnersAreKept /\ SessionInv /\ OwnerInv)'
  BY SessionStep, OwnerStep DEF OwnersAreKept
<1>3. (OwnersAreTyped /\ OneEntry =>
         \A k \in DOMAIN owners : OwnerOf(owners[k][1]) = owners[k][2])'
  BY EntryIsOwner, PTL
<1>4. ASSUME OwnersAreKept, SessionInv, OwnerInv, [SessionsNext]_sessionVars,
             (SessionInv /\ OwnerInv)',
             NEW s \in Session, NEW i \in Invocation, CanReadEvidence(s, i), s \in ToSet(sessions')
      PROVE  CanReadEvidence(s, i)'
  <2>1. i \in decided[s] /\ OwnerOf(i) = s
    BY <1>4 DEF CanReadEvidence
  <2>2. PICK k \in DOMAIN owners : owners[k] = <<i, s>>
    BY <1>4, <2>1, OwnerHasEntry DEF SessionInv
  <2>3. k \in DOMAIN owners' /\ owners'[k] = <<i, s>>
    BY <1>4, <2>2, LiveEntriesStay
  <2>4. OwnerOf(i)' = s
    BY <1>3, <1>4, <2>3 DEF SessionInv, OwnerInv
  <2>5. decided' = decided \/ \E t \in Session : \E j :
                              decided' = [decided EXCEPT ![t] = @ \cup {j}]
    BY <1>4 DEF SessionsNext, sessionVars, Expire, Create, InstallPermit, Authenticate, Claim,
                Decided, MarkDecided, Refused, SessionInv, DemosAreTyped
  <2>6. i \in decided'[s]
    BY <1>4, <2>1, <2>5 DEF SessionInv, DecidedWereRecorded
  <2> QED BY <2>4, <2>6 DEF CanReadEvidence
<1>5. OwnersAreKept /\ SessionInv /\ OwnerInv /\ (SessionInv /\ OwnerInv)' /\ [SessionsNext]_sessionVars
        => [\A s \in Session, i \in Invocation :
              CanReadEvidence(s, i) /\ s \in ToSet(sessions') => CanReadEvidence(s, i)']_sessionVars
  BY <1>4
<1> QED BY <1>1, <1>2, <1>5, PTL DEF SessionsSpec, EvidenceStaysReadable

=============================================================================
