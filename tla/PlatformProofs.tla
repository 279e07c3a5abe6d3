---------------------------- MODULE PlatformProofs --------------------------
(***************************************************************************)
(* Proofs about the server's smaller parts: the creation of directory      *)
(* accounts, the audit log and the login attempt limiter, for any number   *)
(* of requests, accounts, events and addresses.                            *)
(***************************************************************************)
EXTENDS MCPlatform, Integers, FiniteSetTheorems, WellFoundedInduction, TLAPS

-----------------------------------------------------------------------------
(* LdapProvision *)

\* A slot is taken by each request that works and by no other.
SlotPerHolder == slotsUsed = Cardinality(Holders)

\* What a request has found free is free until the directory changes under it.
FoundFree ==
  \A c \in Creates : ~create[c].raced =>
    /\ create[c].step \in {"number", "group", "add"} =>
         \A e \in directory : e.name # create[c].name
    /\ create[c].step \in {"group", "add"} =>
         \A e \in directory : e.number # create[c].number

\* Nothing is recorded before the end.
AuditAtEnd == \A c \in Creates : create[c].step # "done" => create[c].audit = "none"

\* The inductive invariant of LdapProvision.
ProvisionInv ==
  ProvisionTypeOK /\ SlotPerHolder /\ FoundFree /\ AuditAtEnd /\ IdentityUnlessRaced

\* An empty directory and requests that have not begun.
LEMMA ProvisionInitInv == ProvisionInit => ProvisionInv
<1> SUFFICES ASSUME ProvisionInit PROVE ProvisionInv
  OBVIOUS
<1> USE ProvisionAssumption DEF ProvisionInit
<1>1. create \in [Creates -> [step : Steps, name : UserNames, number : UidNumbers,
                             raced : BOOLEAN, audit : AuditOutcomes]]
  BY DEF Steps, AuditOutcomes
<1>2. ProvisionTypeOK
  BY <1>1 DEF ProvisionTypeOK
<1>3. SlotPerHolder
  <2>1. Holders = {}
    BY DEF Holders, Working
  <2> QED
    BY <2>1, FS_EmptySet DEF SlotPerHolder
<1>4. FoundFree /\ AuditAtEnd /\ IdentityUnlessRaced
  BY DEF FoundFree, AuditAtEnd, IdentityUnlessRaced
<1> QED
  BY <1>2, <1>3, <1>4 DEF ProvisionInv

\* A request that gives its slot back had one.
LEMMA GiveBack ==
  ASSUME ProvisionInv, NEW c \in Creates, create[c].step \in Working,
         Holders' = Holders \ {c}, slotsUsed' = slotsUsed - 1
  PROVE  SlotPerHolder' /\ slotsUsed' \in 0 .. DirectorySlots
<1>1. IsFiniteSet(Holders)
  BY ProvisionAssumption, FS_Subset DEF Holders
<1>2. c \in Holders
  BY DEF Holders
<1>3. Cardinality(Holders \ {c}) = Cardinality(Holders) - 1 /\ IsFiniteSet(Holders \ {c})
  BY <1>1, <1>2, FS_RemoveElement
<1>4. Cardinality(Holders \ {c}) \in Nat
  BY <1>3, FS_CardinalityType
<1> QED
  BY <1>3, <1>4, ProvisionAssumption DEF ProvisionInv, ProvisionTypeOK, SlotPerHolder

\* Each step keeps the inductive invariant: a request ends, ...
LEMMA OutcomeStep ==
  ASSUME ProvisionInv, NEW c \in Creates, create[c].step # "done",
         NEW outcome \in {"denied", "failure"}, Outcome(c, outcome), UNCHANGED directory
  PROVE  /\ create' \in [Creates -> [step : Steps, name : UserNames, number : UidNumbers,
                                     raced : BOOLEAN, audit : AuditOutcomes]]
         /\ Holders' = Holders \ {c}
         /\ FoundFree' /\ AuditAtEnd' /\ IdentityUnlessRaced'
<1> USE DEF ProvisionInv, ProvisionTypeOK, Outcome
<1>1. create' \in [Creates -> [step : Steps, name : UserNames, number : UidNumbers,
                               raced : BOOLEAN, audit : AuditOutcomes]]
  BY ZenonT(60) DEF Steps, AuditOutcomes
<1>2. /\ create'[c].step = "done" /\ create'[c].audit = outcome
      /\ \A d \in Creates \ {c} : create'[d] = create[d]
  OBVIOUS
<1>3. Holders' = Holders \ {c}
  BY <1>2 DEF Holders, Working
<1>4. FoundFree' /\ AuditAtEnd'
  BY <1>2 DEF FoundFree, AuditAtEnd
<1>5. IdentityUnlessRaced'
  BY <1>2 DEF IdentityUnlessRaced
<1> QED
  BY <1>1, <1>3, <1>4, <1>5

\* ... or goes on to its next search, ...
LEMMA PassStep ==
  ASSUME ProvisionInv, NEW c \in Creates, NEW to \in Working,
         create' = [create EXCEPT ![c].step = to], UNCHANGED directory,
         create[c].step # "done",
         to \in {"number", "group", "add"} /\ ~create[c].raced =>
           /\ create[c].step \in {"number", "group", "add"}
                \/ \A e \in directory : e.name # create[c].name
           /\ to \in {"group", "add"} => create[c].step \in {"group", "add"}
                \/ \A e \in directory : e.number # create[c].number
  PROVE  /\ create' \in [Creates -> [step : Steps, name : UserNames, number : UidNumbers,
                                     raced : BOOLEAN, audit : AuditOutcomes]]
         /\ Holders' = Holders \cup {c}
         /\ FoundFree' /\ AuditAtEnd' /\ IdentityUnlessRaced'
<1> USE DEF ProvisionInv, ProvisionTypeOK, Working
<1>1. create' \in [Creates -> [step : Steps, name : UserNames, number : UidNumbers,
                               raced : BOOLEAN, audit : AuditOutcomes]]
  BY DEF Steps
<1>2. /\ create'[c].step = to /\ create'[c].name = create[c].name
      /\ create'[c].number = create[c].number
      /\ create'[c].raced = create[c].raced /\ create'[c].audit = create[c].audit
      /\ \A d \in Creates \ {c} : create'[d] = create[d]
  OBVIOUS
<1>3. Holders' = Holders \cup {c}
  BY <1>2 DEF Holders
<1>4. FoundFree'
  BY <1>2 DEF FoundFree
<1>5. AuditAtEnd' /\ IdentityUnlessRaced'
  BY <1>2 DEF AuditAtEnd, IdentityUnlessRaced
<1> QED
  BY <1>1, <1>3, <1>4, <1>5

\* ... or the directory takes an entry.
LEMMA EntryStep ==
  ASSUME ProvisionInv, NEW others \in SUBSET Creates, NEW e \in Entry,
         \A f \in directory : f.name # e.name,
         \A f \in directory : f.number = e.number => e.raced,
         directory' = directory \cup {e},
         NEW done \in SUBSET Creates, others = Creates \ done,
         \A c \in done : /\ create'[c].step = "done" /\ create'[c].name = e.name
                         /\ create'[c].number = e.number,
         \A c \in others : create'[c] = Overtaken(others)[c]
  PROVE  FoundFree' /\ (\A c \in others : create'[c].step # "done" => create'[c].audit = "none")
           /\ IdentityUnlessRaced'
<1> USE DEF ProvisionInv, ProvisionTypeOK
<1>1. \A c \in others : /\ create'[c].step = create[c].step /\ create'[c].name = create[c].name
                        /\ create'[c].number = create[c].number /\ create'[c].audit = create[c].audit
                        /\ create[c].step \in Working => create'[c].raced
  <2> TAKE c \in others
  <2>1. create'[c] = [create[c] EXCEPT !.raced =
          (create[c].raced \/ (c \in others /\ create[c].step \in {"name", "number", "group", "add"}))]
    BY DEF Overtaken
  <2>2. create[c] \in [step : Steps, name : UserNames, number : UidNumbers,
                      raced : BOOLEAN, audit : AuditOutcomes]
    OBVIOUS
  <2>3. create'[c].raced = (create[c].raced \/ (c \in others /\ create[c].step \in Working))
    BY <2>1, <2>2 DEF Working
  <2> QED
    BY <2>1, <2>2, <2>3
<1>2. FoundFree'
  BY <1>1 DEF FoundFree, Working
<1>3. \A c \in others : create'[c].step # "done" => create'[c].audit = "none"
  BY <1>1 DEF AuditAtEnd
<1>4. \A f, g \in directory' : f # g => f.name # g.name /\ (f.number = g.number => f.raced \/ g.raced)
  BY DEF IdentityUnlessRaced
<1>5. ASSUME NEW c \in Creates, create'[c].audit = "success"
      PROVE  \E f \in directory' : f.name = create'[c].name /\ f.number = create'[c].number
  <2>1. CASE c \in done
    BY <2>1
  <2>2. CASE c \in others
    BY <1>1, <1>5, <2>2 DEF IdentityUnlessRaced
  <2> QED
    BY <2>1, <2>2
<1> QED
  BY <1>2, <1>3, <1>4, <1>5 DEF IdentityUnlessRaced

\* Each step keeps the inductive invariant.
LEMMA ProvisionStepInv == ProvisionInv /\ [ProvisionNext]_provisionVars => ProvisionInv'
<1> SUFFICES ASSUME ProvisionInv, [ProvisionNext]_provisionVars PROVE ProvisionInv'
  OBVIOUS
<1> USE ProvisionAssumption
<1>0. IsFiniteSet(Holders) /\ slotsUsed = Cardinality(Holders) /\ slotsUsed \in 0 .. DirectorySlots
  BY FS_Subset DEF Holders, ProvisionInv, SlotPerHolder, ProvisionTypeOK
<1>1. ASSUME NEW c \in Creates, NotAdmitted(c) PROVE ProvisionInv'
  <2>1. PICK outcome \in {"denied", "failure"} : Outcome(c, outcome)
    BY <1>1 DEF NotAdmitted
  <2>2. create[c].step = "new" /\ UNCHANGED <<directory, slotsUsed>>
    BY <1>1 DEF NotAdmitted
  <2>3. Holders \ {c} = Holders
    BY <2>2 DEF Holders, Working
  <2> QED
    BY <2>1, <2>2, <2>3, OutcomeStep DEF ProvisionInv, ProvisionTypeOK, SlotPerHolder
<1>2. ASSUME NEW c \in Creates, TakeSlot(c) PROVE ProvisionInv'
  <2>1. /\ create[c].step = "new" /\ create' = [create EXCEPT ![c].step = "name"]
        /\ slotsUsed < DirectorySlots /\ slotsUsed' = slotsUsed + 1 /\ UNCHANGED directory
    BY <1>2 DEF TakeSlot
  <2>2. c \notin Holders
    BY <2>1 DEF Holders, Working
  <2>3. Cardinality(Holders \cup {c}) = Cardinality(Holders) + 1
    BY <1>0, <2>2, FS_AddElement, SMTT(30)
  <2>4. "name" \in Working
    BY DEF Working
  <2> QED
    <3>1. /\ create' \in [Creates -> [step : Steps, name : UserNames, number : UidNumbers,
                                     raced : BOOLEAN, audit : AuditOutcomes]]
          /\ Holders' = Holders \cup {c}
          /\ FoundFree' /\ AuditAtEnd' /\ IdentityUnlessRaced'
      BY <2>1, <2>4, PassStep
    <3>2. SlotPerHolder' /\ slotsUsed' \in 0 .. DirectorySlots
      BY <1>0, <2>1, <2>3, <3>1 DEF SlotPerHolder
    <3> QED
      BY <2>1, <3>1, <3>2 DEF ProvisionInv, ProvisionTypeOK
<1>3. ASSUME NEW c \in Creates, NEW from \in Working, NEW to \in Working,
             Pass(c, from, to),
             to = "number" => \A e \in directory : e.name # create[c].name,
             to = "group" => from = "number" /\ \A e \in directory : e.number # create[c].number,
             to = "add" => from = "group"
      PROVE  ProvisionInv'
  <2>1. /\ create[c].step = from /\ create' = [create EXCEPT ![c].step = to]
        /\ UNCHANGED <<directory, slotsUsed>>
    BY <1>3 DEF Pass
  <2>2. Holders \cup {c} = Holders
    BY <1>3, <2>1 DEF Holders
  <2> QED
    BY <1>3, <2>1, <2>2, PassStep DEF ProvisionInv, ProvisionTypeOK, SlotPerHolder, Working
<1>4. ASSUME NEW c \in Creates, NameFree(c) \/ NumberFree(c) \/ GroupExists(c) PROVE ProvisionInv'
  BY <1>3, <1>4 DEF NameFree, NumberFree, GroupExists, Working
<1>5. ASSUME NEW c \in Creates, Fail(c) PROVE ProvisionInv'
  <2>1. /\ create[c].step \in Working /\ slotsUsed' = slotsUsed - 1
        /\ Outcome(c, "failure") /\ UNCHANGED directory
    BY <1>5 DEF Fail, Working
  <2> QED
    BY <2>1, OutcomeStep, GiveBack DEF ProvisionInv, ProvisionTypeOK, Working
<1>6. ASSUME NEW c \in Creates, Add(c) PROVE ProvisionInv'
  <2> DEFINE e == [name |-> create[c].name, number |-> create[c].number, raced |-> create[c].raced]
             others == Creates \ {c}
  <2>1. create[c].step = "add" /\ slotsUsed' = slotsUsed - 1 /\ directory' = directory \cup {e}
    BY <1>6 DEF Add
  <2>2. e \in Entry /\ directory' \subseteq Entry
    BY <2>1 DEF Entry, ProvisionInv, ProvisionTypeOK
  <2>3. PICK outcome \in {"success", "failure"} :
          create' = [Overtaken(others) EXCEPT ![c].step = "done", ![c].audit = outcome]
    BY <1>6 DEF Add
  <2>4. Overtaken(others) \in [Creates -> [step : Steps, name : UserNames, number : UidNumbers,
                                           raced : BOOLEAN, audit : AuditOutcomes]]
    <3>1. \A d \in Creates :
            (create[d].raced \/ (d \in others /\ create[d].step \in {"name", "number", "group", "add"}))
              \in BOOLEAN
      OBVIOUS
    <3> QED
      BY <3>1 DEF Overtaken, ProvisionInv, ProvisionTypeOK
  <2>5. create' \in [Creates -> [step : Steps, name : UserNames, number : UidNumbers,
                                 raced : BOOLEAN, audit : AuditOutcomes]]
    BY <2>3, <2>4, ZenonT(60) DEF Steps, AuditOutcomes
  <2>6. /\ \A d \in others : create'[d] = Overtaken(others)[d]
        /\ create'[c].step = "done" /\ create'[c].audit = outcome
        /\ create'[c].name = create[c].name /\ create'[c].number = create[c].number
    BY <2>3, <2>4, ZenonT(60) DEF Overtaken, ProvisionInv, ProvisionTypeOK
  <2>7. Holders' = Holders \ {c}
    <3>1. \A d \in others : create'[d].step = create[d].step
      BY <2>6, ZenonT(60) DEF Overtaken, ProvisionInv, ProvisionTypeOK
    <3> QED
      BY <2>6, <3>1 DEF Holders, Working
  <2>8. SlotPerHolder' /\ slotsUsed' \in 0 .. DirectorySlots
    BY <2>1, <2>7, GiveBack DEF Working
  <2>9. /\ \A f \in directory : f.name # e.name
        /\ \A f \in directory : f.number = e.number => e.raced
    BY <1>6, <2>1 DEF Add, ProvisionInv, FoundFree
  <2>10. FoundFree' /\ AuditAtEnd' /\ IdentityUnlessRaced'
    <3>1. \A d \in {c} : /\ create'[d].step = "done" /\ create'[d].name = e.name
                         /\ create'[d].number = e.number
      BY <2>6
    <3>2. /\ FoundFree' /\ IdentityUnlessRaced'
          /\ \A d \in others : create'[d].step # "done" => create'[d].audit = "none"
      <4> HIDE DEF e, others
      <4>1. others \in SUBSET Creates /\ {c} \in SUBSET Creates /\ others = Creates \ {c}
        BY DEF others
      <4> QED
        BY <2>1, <2>2, <2>6, <2>9, <3>1, <4>1, EntryStep, ZenonT(60)
    <3> QED
      BY <2>6, <3>2 DEF AuditAtEnd
  <2> QED
    BY <2>2, <2>5, <2>8, <2>10 DEF ProvisionInv, ProvisionTypeOK
<1>7. CASE OtherWriter
  <2>1. PICK name \in UserNames, number \in UidNumbers :
          /\ \A f \in directory : f.name # name /\ f.number # number
          /\ directory' = directory \cup {[name |-> name, number |-> number, raced |-> FALSE]}
    BY <1>7 DEF OtherWriter
  <2> DEFINE e == [name |-> name, number |-> number, raced |-> FALSE]
  <2>2. e \in Entry /\ directory' \subseteq Entry
    <3>1. e \in Entry
      BY DEF Entry
    <3> QED
      BY <2>1, <3>1 DEF ProvisionInv, ProvisionTypeOK
  <2>3. create' = Overtaken(Creates) /\ UNCHANGED slotsUsed
    BY <1>7 DEF OtherWriter
  <2>4. create' \in [Creates -> [step : Steps, name : UserNames, number : UidNumbers,
                                 raced : BOOLEAN, audit : AuditOutcomes]]
    <3>1. \A d \in Creates :
            (create[d].raced \/ (d \in Creates /\ create[d].step \in {"name", "number", "group", "add"}))
              \in BOOLEAN
      OBVIOUS
    <3> QED
      BY <2>3, <3>1, ZenonT(30) DEF Overtaken, ProvisionInv, ProvisionTypeOK
  <2>5. Holders' = Holders
    <3>1. \A d \in Creates : create'[d].step = create[d].step
      BY <2>3 DEF Overtaken, ProvisionInv, ProvisionTypeOK
    <3> QED
      BY <3>1 DEF Holders
  <2>6. /\ \A f \in directory : f.name # e.name
        /\ \A f \in directory : f.number = e.number => e.raced
    BY <2>1
  <2>7. FoundFree' /\ AuditAtEnd' /\ IdentityUnlessRaced'
    <3> HIDE DEF e
    <3>1. directory' = directory \cup {e}
      BY <2>1 DEF e
    <3>2. {} \in SUBSET Creates /\ Creates \in SUBSET Creates /\ Creates = Creates \ {}
      OBVIOUS
    <3>3. \A c \in {} : /\ create'[c].step = "done" /\ create'[c].name = e.name
                        /\ create'[c].number = e.number
      OBVIOUS
    <3>4. \A c \in Creates : create'[c] = Overtaken(Creates)[c]
      BY <2>3
    <3> QED
      BY <2>2, <2>6, <3>1, <3>2, <3>3, <3>4, EntryStep DEF AuditAtEnd
  <2> QED
    BY <2>2, <2>3, <2>4, <2>5, <2>7 DEF ProvisionInv, ProvisionTypeOK, SlotPerHolder
<1>8. CASE UNCHANGED provisionVars
  BY <1>8 DEF provisionVars, ProvisionInv, ProvisionTypeOK, SlotPerHolder, Holders, FoundFree,
              AuditAtEnd, IdentityUnlessRaced
<1> QED
  BY <1>1, <1>2, <1>4, <1>5, <1>6, <1>7, <1>8 DEF ProvisionNext

\* Every variable of the provisioning keeps its type, the slots stay within
\* their channel; two accounts share a UID number only after a race, none
\* share a name, and a success in the audit log has its account.
THEOREM ProvisionCorrect == ProvisionSpec => [](ProvisionTypeOK /\ IdentityUnlessRaced)
<1>1. ProvisionInv => ProvisionTypeOK /\ IdentityUnlessRaced
  BY DEF ProvisionInv
<1> QED
  BY ProvisionInitInv, ProvisionStepInv, <1>1, PTL DEF ProvisionSpec

\* Only the step of a request and whether it was overtaken change with the directory.
LEMMA OvertakenSteps ==
  ASSUME ProvisionTypeOK, NEW others
  PROVE  /\ Overtaken(others) \in [Creates -> [step : Steps, name : UserNames, number : UidNumbers,
                                             raced : BOOLEAN, audit : AuditOutcomes]]
         /\ \A d \in Creates : Overtaken(others)[d].step = create[d].step
<1>1. \A d \in Creates :
        (create[d].raced \/ (d \in others /\ create[d].step \in {"name", "number", "group", "add"}))
          \in BOOLEAN
  OBVIOUS
<1> QED
  BY <1>1 DEF Overtaken, ProvisionTypeOK

\* A step takes a slot, gives one back or leaves the pool alone.
LEMMA ProvisionStepPool ==
  ProvisionTypeOK /\ [ProvisionNext]_provisionVars => [DirectoryPool!Next]_<<Holders, slotsUsed>>
<1> SUFFICES ASSUME ProvisionTypeOK, [ProvisionNext]_provisionVars
             PROVE  [DirectoryPool!Next]_<<Holders, slotsUsed>>
  OBVIOUS
<1>r. ASSUME NEW c \in Creates, c \in Holders, Holders' = Holders \ {c}, slotsUsed' = slotsUsed - 1
      PROVE  DirectoryPool!Next
  BY <1>r DEF DirectoryPool!Next, DirectoryPool!Release
<1>1. ASSUME NEW c \in Creates, TakeSlot(c) PROVE DirectoryPool!Next
  <2>1. c \notin Holders /\ Holders' = Holders \cup {c}
    BY <1>1 DEF TakeSlot, Holders, Working, ProvisionTypeOK
  <2> QED
    BY <1>1, <2>1 DEF TakeSlot, DirectoryPool!Next, DirectoryPool!Acquire
<1>2. ASSUME NEW c \in Creates, NotAdmitted(c) PROVE UNCHANGED <<Holders, slotsUsed>>
  BY <1>2 DEF NotAdmitted, Outcome, Holders, Working, ProvisionTypeOK
<1>3. ASSUME NEW c \in Creates, NameFree(c) \/ NumberFree(c) \/ GroupExists(c)
      PROVE  UNCHANGED <<Holders, slotsUsed>>
  BY <1>3 DEF NameFree, NumberFree, GroupExists, Pass, Holders, Working, ProvisionTypeOK
<1>4. ASSUME NEW c \in Creates, Fail(c) PROVE DirectoryPool!Next
  <2>1. c \in Holders /\ Holders' = Holders \ {c} /\ slotsUsed' = slotsUsed - 1
    BY <1>4 DEF Fail, Outcome, Holders, Working, ProvisionTypeOK
  <2> QED
    BY <1>r, <2>1
<1>5. ASSUME NEW c \in Creates, Add(c) PROVE DirectoryPool!Next
  <2> DEFINE over == Overtaken(Creates \ {c})
  <2>1. /\ over \in [Creates -> [step : Steps, name : UserNames, number : UidNumbers,
                                 raced : BOOLEAN, audit : AuditOutcomes]]
        /\ \A d \in Creates : over[d].step = create[d].step
    BY OvertakenSteps
  <2>2. PICK outcome \in {"success", "failure"} :
          create' = [over EXCEPT ![c].step = "done", ![c].audit = outcome]
    BY <1>5 DEF Add
  <2> HIDE DEF over
  <2>3. /\ create'[c].step = "done"
        /\ \A d \in Creates \ {c} : create'[d].step = create[d].step
    BY <2>1, <2>2
  <2>4. create[c].step = "add" /\ slotsUsed' = slotsUsed - 1
    BY <1>5 DEF Add
  <2>5. c \in Holders /\ Holders' = Holders \ {c}
    BY <2>3, <2>4 DEF Holders, Working
  <2> QED
    BY <1>r, <2>4, <2>5
<1>6. CASE OtherWriter
  <2>1. create' = Overtaken(Creates) /\ UNCHANGED slotsUsed
    BY <1>6 DEF OtherWriter
  <2>2. \A d \in Creates : create'[d].step = create[d].step
    BY <2>1, OvertakenSteps
  <2> QED
    BY <2>1, <2>2 DEF Holders
<1>7. CASE UNCHANGED provisionVars
  BY <1>7 DEF provisionVars, Holders
<1> QED
  BY <1>1, <1>2, <1>3, <1>4, <1>5, <1>6, <1>7 DEF ProvisionNext

\* Creations of directory accounts, however they end, use the slots as the clients of
\* a pool do: LdapProvision implements SlotPool.
THEOREM ProvisionRefinesPool == ProvisionSpec => ImplementsDirectoryPool
<1>1. ProvisionInit => DirectoryPool!Init
  BY DEF ProvisionInit, DirectoryPool!Init, Holders, Working
<1> QED
  BY <1>1, ProvisionCorrect, ProvisionStepPool, PTL
     DEF ProvisionSpec, ImplementsDirectoryPool, DirectoryPool!Spec

-----------------------------------------------------------------------------
(* AuditLog *)

\* A set of numbers has a least one, ...
LEMMA LeastOf ==
  ASSUME NEW T \in SUBSET Nat, T # {}
  PROVE  \E m \in T : \A t \in T : m <= t
<1>1. \E m \in T : \A t \in T : ~(<<t, m>> \in OpToRel(<, Nat))
  BY NatLessThanWellFounded, WFMin
<1>2. PICK m \in T : \A t \in T : ~(<<t, m>> \in OpToRel(<, Nat))
  BY <1>1
<1>3. \A t \in T : ~(t < m)
  BY <1>2 DEF OpToRel
<1> QED
  BY <1>3

\* ... which Min returns, ...
LEMMA MinIsLeast ==
  ASSUME NEW T \in SUBSET Nat, T # {}
  PROVE  Min(T) \in T /\ \A t \in T : Min(T) <= t
BY LeastOf DEF Min

\* ... and, below a bound, a greatest one.
LEMMA GreatestOf ==
  ASSUME NEW T \in SUBSET Nat, T # {}, NEW n \in Nat, \A t \in T : t <= n
  PROVE  \E m \in T : \A t \in T : t <= m
<1> DEFINE U == {u \in Nat : n - u \in T}
<1>1. U # {}
  <2>1. PICK t \in T : TRUE
    OBVIOUS
  <2>2. n - t \in Nat /\ n - (n - t) = t
    BY <2>1
  <2> QED
    BY <2>2
<1>2. PICK u \in U : \A v \in U : u <= v
  BY <1>1, LeastOf
<1>3. \A t \in T : n - t \in U
  <2> TAKE t \in T
  <2>1. n - t \in Nat /\ n - (n - t) = t
    OBVIOUS
  <2> QED
    BY <2>1
<1> QED
  BY <1>2, <1>3

\* What List reads from: finitely many events.
LEMMA FiniteIds ==
  ASSUME NEW S \in SUBSET Ids
  PROVE  /\ IsFiniteSet(S) /\ Cardinality(S) \in Nat
         /\ S \in SUBSET Nat /\ \A e \in S : e # 0 /\ e <= MaxRecorded
         /\ \A e \in S : /\ IsFiniteSet({f \in S : f > e})
                         /\ Cardinality({f \in S : f > e}) \in Nat
<1>1. IsFiniteSet(Ids)
  BY AuditAssumption, FS_Interval DEF Ids
<1>2. \A T \in SUBSET Ids : IsFiniteSet(T) /\ Cardinality(T) \in Nat
  BY <1>1, FS_Subset, FS_CardinalityType
<1> QED
  BY <1>2, AuditAssumption DEF Ids

\* ORDER BY id DESC LIMIT k skips no event, ...
LEMMA NewestUpward ==
  ASSUME NEW S \in SUBSET Ids, NEW k \in Nat, NEW e \in Newest(S, k), NEW f \in S, f > e
  PROVE  f \in Newest(S, k)
<1>1. {g \in S : g > f} \in SUBSET {g \in S : g > e}
  BY FiniteIds DEF Newest
<1>2. Cardinality({g \in S : g > f}) <= Cardinality({g \in S : g > e})
  <2>1. IsFiniteSet({g \in S : g > e})
    BY FiniteIds DEF Newest
  <2> QED
    BY <1>1, <2>1, FS_Subset
<1>3. Cardinality({g \in S : g > f}) \in Nat /\ Cardinality({g \in S : g > e}) \in Nat
  BY FiniteIds DEF Newest
<1>4. Cardinality({g \in S : g > e}) < k
  BY DEF Newest
<1> QED
  BY <1>2, <1>3, <1>4 DEF Newest

\* ... returns at most k of them, ...
LEMMA NewestBound ==
  ASSUME NEW S \in SUBSET Ids, NEW k \in Nat
  PROVE  Cardinality(Newest(S, k)) <= k
<1>1. CASE Newest(S, k) = {}
  BY <1>1, FS_EmptySet
<1>2. CASE Newest(S, k) # {}
  <2>1. PICK p \in Newest(S, k) : \A t \in Newest(S, k) : p <= t
    BY <1>2, FiniteIds, LeastOf DEF Newest
  <2> DEFINE above == {f \in S : f > p}
  <2>2. p \in S /\ IsFiniteSet(above) /\ Cardinality(above) \in Nat /\ Cardinality(above) < k
    BY <2>1, FiniteIds DEF Newest
  <2>3. Newest(S, k) \in SUBSET (above \cup {p})
    BY <2>1, FiniteIds DEF Newest
  <2>4. IsFiniteSet(above \cup {p}) /\ Cardinality(above \cup {p}) <= Cardinality(above) + 1
    <3>1. p \notin above
      BY <2>2, FiniteIds
    <3> HIDE DEF above
    <3> QED
      <4>1. /\ IsFiniteSet(above \cup {p})
            /\ Cardinality(above \cup {p}) = IF p \in above THEN Cardinality(above)
                                             ELSE Cardinality(above) + 1
        BY <2>2, FS_AddElement
      <4> QED
        BY <2>2, <3>1, <4>1
  <2>5. Cardinality(Newest(S, k)) <= Cardinality(above \cup {p})
    BY <2>3, <2>4, FS_Subset
  <2>6. Cardinality(Newest(S, k)) \in Nat /\ Cardinality(above \cup {p}) \in Nat
    BY <2>3, <2>4, FS_Subset, FS_CardinalityType
  <2> QED
    BY <2>2, <2>4, <2>5, <2>6
<1> QED
  BY <1>1, <1>2

\* ... and all of them when one more would bring none.
LEMMA NewestAll ==
  ASSUME NEW S \in SUBSET Ids, NEW k \in Nat, Newest(S, k + 1) = Newest(S, k)
  PROVE  Newest(S, k) = S
<1> SUFFICES ASSUME Newest(S, k) # S PROVE FALSE
  OBVIOUS
<1>1. S \ Newest(S, k) # {} /\ S \ Newest(S, k) \in SUBSET Nat
  BY FiniteIds DEF Newest
<1>2. PICK m \in S \ Newest(S, k) : \A t \in S \ Newest(S, k) : t <= m
  BY <1>1, FiniteIds, GreatestOf, AuditAssumption
<1>3. {f \in S : f > m} \in SUBSET Newest(S, k)
  BY <1>2, FiniteIds
<1>4. IsFiniteSet(Newest(S, k)) /\ Cardinality(Newest(S, k)) \in Nat
  BY FiniteIds DEF Newest
<1>5. Cardinality({f \in S : f > m}) <= Cardinality(Newest(S, k))
  BY <1>3, <1>4, FS_Subset
<1>6. Cardinality({f \in S : f > m}) < k + 1
  BY <1>2, <1>4, <1>5, NewestBound, FiniteIds
<1> QED
  BY <1>2, <1>6 DEF Newest

\* The page cut from one row more than a page is the page.
LEMMA NewestOfRows ==
  ASSUME NEW S \in SUBSET Ids, NEW k \in Nat
  PROVE  Newest(Newest(S, k + 1), k) = Newest(S, k)
<1> DEFINE rows == Newest(S, k + 1)
<1>1. \A e \in rows : {f \in rows : f > e} = {f \in S : f > e}
  BY NewestUpward DEF Newest
<1>2. \A e \in Newest(S, k) : e \in rows
  BY FiniteIds DEF Newest
<1> QED
  BY <1>1, <1>2 DEF Newest

\* A set that has an event has a newest one.
LEMMA NewestSome ==
  ASSUME NEW S \in SUBSET Ids, S # {}, NEW k \in Nat \ {0}
  PROVE  Newest(S, k) # {}
<1>1. PICK m \in S : \A t \in S : t <= m
  BY FiniteIds, GreatestOf, AuditAssumption
<1>2. {f \in S : f > m} = {}
  BY <1>1, FiniteIds
<1>3. Cardinality({f \in S : f > m}) < k
  BY <1>2, FS_EmptySet
<1> QED
  BY <1>1, <1>3 DEF Newest

\* A page holds what there is below the cursor, down to the cursor of the
\* next page, or all of it when there is no next page.
LEMMA ListPages ==
  ASSUME AuditTypeOK, NEW before \in Nat
  PROVE  LET S == {e \in events : before = 0 \/ e < before}
             list == List(before)
         IN  /\ list.page \in SUBSET S
             /\ list.next = 0 => list.page = S
             /\ list.next # 0 => /\ list.next \in list.page
                                 /\ \A e \in list.page : list.next <= e
                                 /\ \A e \in S : e >= list.next => e \in list.page
<1> DEFINE S == {e \in events : before = 0 \/ e < before}
           rows == Newest(S, PageSize + 1)
           page == Newest(rows, PageSize)
<1>1. S \in SUBSET Ids /\ PageSize \in Nat \ {0}
  BY AuditAssumption DEF AuditTypeOK
<1>2. page = Newest(S, PageSize)
  BY <1>1, NewestOfRows
<1>3. List(before) = [page |-> page, next |-> IF rows # page THEN Min(page) ELSE 0]
  BY DEF List
<1>4. page \in SUBSET S
  BY <1>2 DEF Newest
<1>5. rows = page => page = S
  BY <1>1, <1>2, NewestAll
<1>6. rows # page => /\ Min(page) \in page /\ Min(page) # 0
                     /\ \A e \in page : Min(page) <= e
                     /\ \A e \in S : e >= Min(page) => e \in page
  <2> SUFFICES ASSUME rows # page
               PROVE  /\ Min(page) \in page /\ Min(page) # 0
                      /\ \A e \in page : Min(page) <= e
                      /\ \A e \in S : e >= Min(page) => e \in page
    OBVIOUS
  <2>1. page # {}
    <3>1. S = {} => rows = {}
      BY DEF Newest
    <3> QED
      BY <1>1, <1>2, <1>4, <3>1, NewestSome
  <2>2. Min(page) \in page /\ \A e \in page : Min(page) <= e
    BY <1>1, <1>4, <2>1, FiniteIds, MinIsLeast
  <2>3. ASSUME NEW e \in S, e > Min(page) PROVE e \in page
    BY <1>1, <1>2, <2>2, <2>3, NewestUpward
  <2>4. \A e \in S : e \in Nat /\ e # 0
    BY <1>1, FiniteIds
  <2>5. Min(page) \in Nat /\ Min(page) # 0
    BY <1>4, <2>2, <2>4
  <2>6. \A e \in S : e >= Min(page) => e \in page
    <3> TAKE e \in S
    <3> HAVE e >= Min(page)
    <3>1. e = Min(page) \/ e > Min(page)
      BY <2>4, <2>5
    <3> QED
      BY <2>2, <2>3, <3>1
  <2> QED
    BY <2>2, <2>5, <2>6
<1> HIDE DEF S, rows, page
<1> QED
  <2>1. CASE rows = page
    <3>1. List(before).page = S /\ List(before).next = 0
      BY <1>3, <1>5, <2>1
    <3> QED
      BY <3>1 DEF S
  <2>2. CASE rows # page
    <3>1. List(before).page = page /\ List(before).next = Min(page)
      BY <1>3, <2>2
    <3> QED
      BY <1>4, <1>6, <2>2, <3>1 DEF S
  <2> QED
    BY <2>1, <2>2

\* Where a walk is: it has shown what it should down to its cursor, and
\* nothing below it.
WalkSoFar ==
  /\ walk.newest <= lastID
  /\ walk.at = "paging" <=> walk.before # 0
  /\ walk.at = "paging" => /\ \A e \in walk.seen : walk.before <= e
                           /\ \A e \in events : e <= walk.newest /\ walk.before <= e => e \in walk.seen

\* The inductive invariant of AuditLog.
AuditInv == AuditTypeOK /\ WalkSoFar /\ AuditWalkComplete

\* Reading a page keeps the walk complete.
LEMMA PageStep ==
  ASSUME AuditInv, NEW before \in 0 .. MaxRecorded, NEW newest \in 0 .. lastID,
         NEW seen \in SUBSET Ids,
         before = 0 => seen = {},
         \A e \in seen : before <= e,
         before # 0 => \A e \in events : e <= newest /\ before <= e => e \in seen,
         ReadPage(before, newest, seen, FALSE), UNCHANGED <<events, lastID>>
  PROVE  AuditInv'
<1> DEFINE S == {e \in events : before = 0 \/ e < before}
           list == List(before)
<1>0. /\ AuditTypeOK /\ before \in Nat /\ lastID \in Nat /\ newest \in Nat
      /\ \A e \in Ids : e \in Nat /\ e <= MaxRecorded
  BY AuditAssumption DEF AuditInv, AuditTypeOK, Ids
<1>1. /\ list.page \in SUBSET S
      /\ list.next = 0 => list.page = S
      /\ list.next # 0 => /\ list.next \in list.page
                          /\ \A e \in list.page : list.next <= e
                          /\ \A e \in S : e >= list.next => e \in list.page
  BY <1>0, ListPages
<1>2. walk' = [at |-> IF list.next = 0 THEN "done" ELSE "paging", before |-> list.next,
               newest |-> newest, seen |-> seen \cup list.page,
               twice |-> FALSE \/ seen \cap list.page # {}]
  BY DEF ReadPage
<1> HIDE DEF list
<1>3. seen \cap list.page = {}
  BY <1>0, <1>1 DEF AuditTypeOK
<1>4. walk' = [at |-> IF list.next = 0 THEN "done" ELSE "paging", before |-> list.next,
               newest |-> newest, seen |-> seen \cup list.page, twice |-> FALSE]
  BY <1>2, <1>3
<1>5. list.next \in 0 .. MaxRecorded
  BY <1>0, <1>1, AuditAssumption DEF AuditTypeOK
<1>6. AuditTypeOK'
  <2>1. seen \cup list.page \in SUBSET Ids /\ newest \in 0 .. MaxRecorded
    <3>1. list.page \in SUBSET Ids
      BY <1>0, <1>1 DEF AuditTypeOK
    <3>2. lastID <= MaxRecorded /\ MaxRecorded \in Nat
      BY <1>0, AuditAssumption DEF AuditTypeOK
    <3> QED
      BY <1>0, <3>1, <3>2
  <2> QED
    BY <1>0, <1>4, <1>5, <2>1 DEF AuditTypeOK
<1>7. WalkSoFar'
  BY <1>0, <1>1, <1>4, <1>5 DEF WalkSoFar, AuditTypeOK
<1>8. AuditWalkComplete'
  <2>1. walk'.at = "done" => \A e \in events : e <= newest => e \in seen \cup list.page
    BY <1>0, <1>1, <1>4 DEF AuditTypeOK
  <2> QED
    BY <1>4, <2>1 DEF AuditInv, AuditWalkComplete
<1> QED
  BY <1>6, <1>7, <1>8 DEF AuditInv

\* Each step keeps the inductive invariant.
LEMMA AuditStepInv == AuditInv /\ [AuditNext]_auditVars => AuditInv'
<1> SUFFICES ASSUME AuditInv, [AuditNext]_auditVars PROVE AuditInv'
  OBVIOUS
<1> USE AuditAssumption
<1>1. CASE Record
  <2>1. AuditTypeOK'
    <3>1. lastID + 1 \in Ids /\ lastID' \in 0 .. MaxRecorded
      BY <1>1 DEF Record, AuditInv, AuditTypeOK, Ids
    <3> QED
      BY <1>1, <3>1 DEF Record, AuditInv, AuditTypeOK
  <2>2. events' = {e \in 1 .. lastID + 1 : e + MaxAuditEvents > lastID + 1}
    BY <1>1 DEF Record, AuditInv, AuditTypeOK, AuditWalkComplete
  <2>3. \A e \in events' : e \in events \/ e = lastID + 1
    BY <1>1 DEF Record
  <2>4. WalkSoFar'
    BY <1>1, <2>3 DEF Record, AuditInv, AuditTypeOK, WalkSoFar
  <2>5. AuditWalkComplete'
    BY <1>1, <2>2, <2>3 DEF Record, AuditInv, AuditTypeOK, WalkSoFar, AuditWalkComplete
  <2> QED
    BY <2>1, <2>4, <2>5 DEF AuditInv
<1>2. CASE FirstPage
  <2>1. 0 \in 0 .. MaxRecorded /\ lastID \in 0 .. lastID /\ {} \in SUBSET Ids
    BY DEF AuditInv, AuditTypeOK
  <2>2. ReadPage(0, lastID, {}, FALSE) /\ UNCHANGED <<events, lastID>>
    BY <1>2 DEF FirstPage
  <2> QED
    BY <2>1, <2>2, PageStep
<1>3. CASE NextPage
  <2>1. /\ walk.before \in 0 .. MaxRecorded /\ walk.newest \in 0 .. lastID
        /\ walk.seen \in SUBSET Ids /\ walk.twice = FALSE /\ walk.before # 0
        /\ \A e \in walk.seen : walk.before <= e
        /\ \A e \in events : e <= walk.newest /\ walk.before <= e => e \in walk.seen
    BY <1>3 DEF NextPage, AuditInv, AuditTypeOK, WalkSoFar, AuditWalkComplete
  <2>2. ReadPage(walk.before, walk.newest, walk.seen, FALSE) /\ UNCHANGED <<events, lastID>>
    BY <1>3, <2>1 DEF NextPage
  <2> QED
    BY <2>1, <2>2, PageStep
<1>4. CASE UNCHANGED auditVars
  BY <1>4 DEF auditVars, AuditInv, AuditTypeOK, WalkSoFar, AuditWalkComplete
<1> QED
  BY <1>1, <1>2, <1>3, <1>4 DEF AuditNext

\* An empty log that nobody walks through.
LEMMA AuditInitInv == AuditInit => AuditInv
BY AuditAssumption DEF AuditInit, AuditInv, AuditTypeOK, WalkSoFar, AuditWalkComplete, Ids

\* A walk through the audit log shows no event twice and misses none that was
\* there when it began and is still kept, for any size of log and page.
THEOREM AuditCorrect == AuditSpec => [](AuditTypeOK /\ AuditWalkComplete)
<1>1. AuditInv => AuditTypeOK /\ AuditWalkComplete
  BY DEF AuditInv
<1> QED
  BY AuditInitInv, AuditStepInv, <1>1, PTL DEF AuditSpec

-----------------------------------------------------------------------------
(* LoginLimiter *)

\* The places in a history of attempts with a time in an interval.
Within(h, from, to) == {i \in DOMAIN h : from <= h[i] /\ h[i] < to}

\* What a window that starts at s says of the history: nothing lies past it, it
\* holds no more than its attempts, and nor does what led up to it.
WindowOf(h, s) ==
  /\ \A i \in DOMAIN h : h[i] < s + Window
  /\ Cardinality(Within(h, s, s + Window)) <= MaxAttempts
  /\ Cardinality(Within(h, s - Window, s)) <= MaxAttempts
  /\ Cardinality(Within(h, s - Window - Window, s)) <= MaxAttempts + MaxAttempts

\* The bound of AttemptsBounded on one history.
Bounded(h) ==
  \A from \in 0 .. MaxClock :
    /\ Cardinality(Within(h, from, from + Window)) <= MaxAttempts + MaxAttempts
    /\ Cardinality(Within(h, from, from + Window + Window))
         <= MaxAttempts + MaxAttempts + MaxAttempts

\* The history of a client and its entry: the entry is the last window, or that
\* window is over.
Paced(c) ==
  /\ \A i \in DOMAIN admitted[c] : admitted[c][i] <= latest
  /\ Bounded(admitted[c])
  /\ \E s \in Int :
       /\ WindowOf(admitted[c], s)
       /\ attempts[c].count > 0 =>
            /\ s = attempts[c].start /\ s <= latest
            /\ Cardinality(Within(admitted[c], s, s + Window)) <= attempts[c].count
       /\ attempts[c].count = 0 => admitted[c] = <<>> \/ s + Window <= latest

\* The inductive invariant of LoginLimiter.
LimiterInv ==
  /\ LimiterTypeOK
  /\ IsFiniteSet(Entries(attempts)) /\ Cardinality(Entries(attempts)) <= Capacity
  /\ swapped \/ \A c \in Clients : Paced(c)

\* A history is finite, so is every part of it.
LEMMA FiniteWithin ==
  ASSUME NEW h \in Seq(0 .. MaxClock), NEW from \in Int, NEW to \in Int
  PROVE  IsFiniteSet(Within(h, from, to)) /\ Cardinality(Within(h, from, to)) \in Nat
<1>1. Len(h) \in Nat /\ DOMAIN h = 1 .. Len(h)
  OBVIOUS
<1>2. IsFiniteSet(1 .. Len(h))
  BY <1>1, FS_Interval
<1>3. Within(h, from, to) \subseteq 1 .. Len(h)
  BY <1>1 DEF Within
<1>4. IsFiniteSet(Within(h, from, to))
  BY <1>2, <1>3, FS_Subset
<1> QED
  BY <1>4, FS_CardinalityType

\* A set covered by two others has no more elements than both.
LEMMA Covered ==
  ASSUME NEW S, NEW T, NEW U, IsFiniteSet(S), IsFiniteSet(T), U \subseteq S \cup T
  PROVE  Cardinality(U) <= Cardinality(S) + Cardinality(T)
<1>1. /\ IsFiniteSet(S \cup T)
      /\ Cardinality(S \cup T) = Cardinality(S) + Cardinality(T) - Cardinality(S \cap T)
  BY FS_Union
<1>2. IsFiniteSet(S \cap T)
  BY FS_Intersection
<1>3. IsFiniteSet(U) /\ Cardinality(U) <= Cardinality(S \cup T)
  BY <1>1, FS_Subset
<1>4. /\ Cardinality(S) \in Nat /\ Cardinality(T) \in Nat /\ Cardinality(S \cap T) \in Nat
      /\ Cardinality(U) \in Nat
  BY <1>2, <1>3, FS_CardinalityType
<1> QED
  BY <1>1, <1>3, <1>4

\* One more attempt: where it is, and that the others keep their places.
LEMMA AppendShape ==
  ASSUME NEW h \in Seq(0 .. MaxClock), NEW t \in 0 .. MaxClock
  PROVE  /\ Append(h, t) \in Seq(0 .. MaxClock)
         /\ DOMAIN Append(h, t) = DOMAIN h \cup {Len(h) + 1}
         /\ Len(h) + 1 \notin DOMAIN h
         /\ Append(h, t)[Len(h) + 1] = t
         /\ \A i \in DOMAIN h : Append(h, t)[i] = h[i] /\ h[i] \in Int
<1>1. Append(h, t) \in Seq(0 .. MaxClock)
  OBVIOUS
<1>2. /\ Len(h) \in Nat /\ DOMAIN h = 1 .. Len(h)
      /\ DOMAIN Append(h, t) = 1 .. Len(h) + 1 /\ Append(h, t)[Len(h) + 1] = t
  OBVIOUS
<1>3. \A i \in 1 .. Len(h) : Append(h, t)[i] = h[i] /\ h[i] \in 0 .. MaxClock
  <2> DEFINE S == 0 .. MaxClock
  <2>1. h \in Seq(S) /\ t \in S
    OBVIOUS
  <2> HIDE DEF S
  <2>2. \A i \in 1 .. Len(h) : h[i] \in S
    BY <2>1
  <2>3. \A i \in 1 .. Len(h) : Append(h, t)[i] = h[i]
    BY <2>1
  <2> QED
    BY <2>2, <2>3 DEF S
<1>4. 1 .. Len(h) + 1 = 1 .. Len(h) \cup {Len(h) + 1} /\ Len(h) + 1 \notin 1 .. Len(h)
  BY <1>2
<1> QED
  BY <1>1, <1>2, <1>3, <1>4, LimiterAssumption

\* Nothing was let through yet: every start of a window fits.
LEMMA EmptyHistory ==
  ASSUME NEW s \in Int
  PROVE  WindowOf(<<>>, s) /\ Bounded(<<>>)
<1>1. \A from, to : Within(<<>>, from, to) = {}
  BY DEF Within
<1>2. Cardinality({}) = 0
  BY FS_EmptySet
<1>3. MaxAttempts \in Nat
  BY LimiterAssumption
<1>4. \A from, to : Cardinality(Within(<<>>, from, to)) = 0
  BY <1>1, <1>2
<1>5. Bounded(<<>>)
  BY <1>3, <1>4 DEF Bounded
<1> QED
  BY <1>3, <1>4, <1>5 DEF WindowOf

\* An attempt counted in the window of the entry.
LEMMA SameWindow ==
  ASSUME NEW h \in Seq(0 .. MaxClock), NEW t \in 0 .. MaxClock, NEW s \in Int,
         NEW n \in Nat, n < MaxAttempts, s <= t, t < s + Window, WindowOf(h, s),
         Cardinality(Within(h, s, s + Window)) <= n
  PROVE  /\ WindowOf(Append(h, t), s)
         /\ Cardinality(Within(Append(h, t), s, s + Window)) <= n + 1
<1> DEFINE g == Append(h, t)
           m == Len(h) + 1
<1>0. Window \in Nat \ {0} /\ MaxAttempts \in Nat \ {0} /\ MaxClock \in Nat /\ t \in Int
  BY LimiterAssumption
<1>1. /\ DOMAIN g = DOMAIN h \cup {m} /\ m \notin DOMAIN h /\ g[m] = t
      /\ \A i \in DOMAIN h : g[i] = h[i] /\ h[i] \in Int
  BY <1>0, AppendShape
<1> HIDE DEF g, m
<1>2. Cardinality(Within(g, s, s + Window)) <= n + 1
  <2>1. Within(g, s, s + Window) \subseteq Within(h, s, s + Window) \cup {m}
    BY <1>0, <1>1 DEF Within
  <2>2. IsFiniteSet(Within(h, s, s + Window)) /\ Cardinality(Within(h, s, s + Window)) \in Nat
    BY <1>0, FiniteWithin
  <2>3. IsFiniteSet({m}) /\ Cardinality({m}) = 1
    BY FS_Singleton
  <2>4. Cardinality(Within(g, s, s + Window)) <= Cardinality(Within(h, s, s + Window)) + 1
    BY <1>0, <2>1, <2>2, <2>3, Covered
  <2>5. g \in Seq(0 .. MaxClock)
    BY <1>0, AppendShape DEF g
  <2>6. Cardinality(Within(g, s, s + Window)) \in Nat
    BY <1>0, <2>5, FiniteWithin
  <2> QED
    BY <1>0, <2>2, <2>4, <2>6
<1>3. \A from \in Int : Within(g, from, s) = Within(h, from, s)
  BY <1>0, <1>1 DEF Within
<1>4. \A i \in DOMAIN g : g[i] < s + Window
  BY <1>0, <1>1 DEF WindowOf
<1>5. g \in Seq(0 .. MaxClock)
  BY <1>0, AppendShape DEF g
<1>6. Cardinality(Within(g, s, s + Window)) \in Nat
  BY <1>0, <1>5, FiniteWithin
<1>7. WindowOf(g, s)
  BY <1>0, <1>2, <1>3, <1>4, <1>6, SMTT(30) DEF WindowOf
<1> QED
  BY <1>0, <1>2, <1>7 DEF g

\* An attempt that starts a window after the last one is over.
LEMMA NewWindow ==
  ASSUME NEW h \in Seq(0 .. MaxClock), NEW t \in 0 .. MaxClock, NEW s \in Int,
         s + Window <= t, WindowOf(h, s)
  PROVE  /\ WindowOf(Append(h, t), t)
         /\ Cardinality(Within(Append(h, t), t, t + Window)) <= 1
<1> DEFINE g == Append(h, t)
           m == Len(h) + 1
<1>0. Window \in Nat \ {0} /\ MaxAttempts \in Nat \ {0} /\ MaxClock \in Nat /\ t \in Int
  BY LimiterAssumption
<1>1. /\ DOMAIN g = DOMAIN h \cup {m} /\ m \notin DOMAIN h /\ g[m] = t
      /\ \A i \in DOMAIN h : g[i] = h[i] /\ h[i] \in Int
      /\ g \in Seq(0 .. MaxClock)
  BY <1>0, AppendShape
<1> HIDE DEF g, m
<1>2. \A i \in DOMAIN h : g[i] < s + Window
  BY <1>0, <1>1 DEF WindowOf
<1>3. /\ IsFiniteSet(Within(h, s, s + Window)) /\ IsFiniteSet(Within(h, s - Window, s))
      /\ Cardinality(Within(h, s, s + Window)) \in Nat
      /\ Cardinality(Within(h, s - Window, s)) \in Nat
  BY <1>0, FiniteWithin
<1>4. /\ Cardinality(Within(g, t - Window, t)) \in Nat
      /\ Cardinality(Within(g, t - Window - Window, t)) \in Nat
      /\ Cardinality(Within(g, t, t + Window)) \in Nat
  BY <1>0, <1>1, FiniteWithin
<1>5. Cardinality(Within(g, t, t + Window)) <= 1
  <2>1. Within(g, t, t + Window) \subseteq {m}
    BY <1>0, <1>1, <1>2, SMTT(30) DEF Within
  <2>2. IsFiniteSet({m}) /\ Cardinality({m}) = 1
    BY FS_Singleton
  <2> QED
    BY <1>0, <2>1, <2>2, FS_Subset
<1>6. Cardinality(Within(g, t - Window, t)) <= MaxAttempts
  <2>1. Within(g, t - Window, t) \subseteq Within(h, s, s + Window)
    BY <1>0, <1>1, <1>2, SMTT(30) DEF Within
  <2>2. Cardinality(Within(g, t - Window, t)) <= Cardinality(Within(h, s, s + Window))
    BY <1>0, <1>3, <2>1, FS_Subset, SMTT(30)
  <2> QED
    BY <1>0, <1>3, <1>4, <2>2, SMTT(30) DEF WindowOf
<1>7. Cardinality(Within(g, t - Window - Window, t)) <= MaxAttempts + MaxAttempts
  <2>1. Within(g, t - Window - Window, t)
          \subseteq Within(h, s - Window, s) \cup Within(h, s, s + Window)
    BY <1>0, <1>1, <1>2, SMTT(30) DEF Within
  <2>2. Cardinality(Within(g, t - Window - Window, t))
          <= Cardinality(Within(h, s - Window, s)) + Cardinality(Within(h, s, s + Window))
    BY <1>0, <1>3, <2>1, Covered
  <2> QED
    BY <1>0, <1>3, <1>4, <2>2, SMTT(30) DEF WindowOf
<1>8. \A i \in DOMAIN g : g[i] < t + Window
  BY <1>0, <1>1, <1>2
<1>9. Cardinality(Within(g, t, t + Window)) <= MaxAttempts
  BY <1>0, <1>4, <1>5, SMTT(30)
<1> QED
  BY <1>0, <1>5, <1>6, <1>7, <1>8, <1>9 DEF WindowOf, g

\* Intervals with the new attempt reach back less than their length from the
\* start of its window; the others are as they were.
LEMMA BoundedAppend ==
  ASSUME NEW h \in Seq(0 .. MaxClock), NEW t \in 0 .. MaxClock, NEW s \in Int,
         s <= t, Bounded(h), WindowOf(Append(h, t), s)
  PROVE  Bounded(Append(h, t))
<1> DEFINE g == Append(h, t)
           m == Len(h) + 1
<1>0. Window \in Nat \ {0} /\ MaxAttempts \in Nat \ {0} /\ MaxClock \in Nat /\ t \in Int
  BY LimiterAssumption
<1>1. /\ DOMAIN g = DOMAIN h \cup {m} /\ m \notin DOMAIN h /\ g[m] = t
      /\ \A i \in DOMAIN h : g[i] = h[i] /\ h[i] \in Int
      /\ g \in Seq(0 .. MaxClock)
  BY <1>0, AppendShape
<1>2. WindowOf(g, s)
  OBVIOUS
<1> HIDE DEF g, m
<1>3. /\ IsFiniteSet(Within(g, s, s + Window)) /\ IsFiniteSet(Within(g, s - Window, s))
      /\ IsFiniteSet(Within(g, s - Window - Window, s))
      /\ Cardinality(Within(g, s, s + Window)) \in Nat
      /\ Cardinality(Within(g, s - Window, s)) \in Nat
      /\ Cardinality(Within(g, s - Window - Window, s)) \in Nat
  BY <1>0, <1>1, FiniteWithin
<1>4. ASSUME NEW from \in 0 .. MaxClock
      PROVE  Cardinality(Within(g, from, from + Window)) <= MaxAttempts + MaxAttempts
  <2>1. Cardinality(Within(g, from, from + Window)) \in Nat
    BY <1>0, <1>1, FiniteWithin
  <2>2. CASE from <= t /\ t < from + Window
    <3>1. Within(g, from, from + Window)
            \subseteq Within(g, s - Window, s) \cup Within(g, s, s + Window)
      BY <1>0, <1>1, <1>2, <2>2, SMTT(30) DEF Within, WindowOf
    <3>2. Cardinality(Within(g, from, from + Window))
            <= Cardinality(Within(g, s - Window, s)) + Cardinality(Within(g, s, s + Window))
      BY <1>0, <1>3, <3>1, Covered
    <3> QED
      BY <1>0, <1>2, <1>3, <2>1, <3>2, SMTT(30) DEF WindowOf
  <2>3. CASE ~(from <= t /\ t < from + Window)
    <3>1. Within(g, from, from + Window) = Within(h, from, from + Window)
      BY <1>0, <1>1, <2>3 DEF Within
    <3> QED
      BY <1>0, <3>1 DEF Bounded
  <2> QED
    BY <1>0, <2>2, <2>3
<1>5. ASSUME NEW from \in 0 .. MaxClock
      PROVE  Cardinality(Within(g, from, from + Window + Window))
               <= MaxAttempts + MaxAttempts + MaxAttempts
  <2>1. Cardinality(Within(g, from, from + Window + Window)) \in Nat
    BY <1>0, <1>1, FiniteWithin
  <2>2. CASE from <= t /\ t < from + Window + Window
    <3>1. Within(g, from, from + Window + Window)
            \subseteq Within(g, s - Window - Window, s) \cup Within(g, s, s + Window)
      BY <1>0, <1>1, <1>2, <2>2, SMTT(30) DEF Within, WindowOf
    <3>2. Cardinality(Within(g, from, from + Window + Window))
            <= Cardinality(Within(g, s - Window - Window, s))
                 + Cardinality(Within(g, s, s + Window))
      BY <1>0, <1>3, <3>1, Covered
    <3> QED
      BY <1>0, <1>2, <1>3, <2>1, <3>2, SMTT(30) DEF WindowOf
  <2>3. CASE ~(from <= t /\ t < from + Window + Window)
    <3>1. Within(g, from, from + Window + Window) = Within(h, from, from + Window + Window)
      BY <1>0, <1>1, <2>3 DEF Within
    <3> QED
      BY <1>0, <3>1 DEF Bounded
  <2> QED
    BY <1>0, <2>2, <2>3
<1> QED
  BY <1>0, <1>4, <1>5 DEF Bounded, g

\* Nobody tried to log in yet.
LEMMA LimiterInitInv == LimiterInit => LimiterInv
<1> SUFFICES ASSUME LimiterInit PROVE LimiterInv
  OBVIOUS
<1> USE LimiterAssumption DEF LimiterInit
<1>1. AnyClient \in Clients
  BY DEF AnyClient
<1>2. LimiterTypeOK
  <2>1. <<>> \in Seq(0 .. MaxClock)
    OBVIOUS
  <2>2. admitted \in [Clients -> Seq(0 .. MaxClock)]
    BY <2>1
  <2>3. /\ NoEntry \in [count : 0 .. MaxAttempts, start : 0 .. MaxClock]
        /\ NoLogin(AnyClient) \in [at : {"idle", "timed", "checking"}, client : Clients,
                                  time : 0 .. MaxClock]
    BY <1>1 DEF NoEntry, NoLogin
  <2>4. now \in 0 .. MaxClock /\ latest \in 0 .. MaxClock
    OBVIOUS
  <2>5. swapped \in BOOLEAN
    OBVIOUS
  <2>6. /\ attempts \in [Clients -> [count : 0 .. MaxAttempts, start : 0 .. MaxClock]]
        /\ login \in [Attempts -> [at : {"idle", "timed", "checking"}, client : Clients,
                                   time : 0 .. MaxClock]]
    BY <2>3
  <2> QED
    BY <2>2, <2>4, <2>5, <2>6 DEF LimiterTypeOK
<1>3. Entries(attempts) = {}
  BY DEF Entries, NoEntry
<1>4. IsFiniteSet(Entries(attempts)) /\ Cardinality(Entries(attempts)) <= Capacity
  <2>1. IsFiniteSet({}) /\ Cardinality({}) = 0
    BY FS_EmptySet
  <2>2. 0 <= Capacity
    BY DEF LimiterInit
  <2> QED
    BY <1>3, <2>1, <2>2
<1>5. ASSUME NEW c \in Clients
      PROVE  Paced(c)
  <2>1. WindowOf(<<>>, 0) /\ Bounded(<<>>)
    BY EmptyHistory
  <2>2. admitted[c] = <<>> /\ attempts[c].count = 0
    BY DEF NoEntry
  <2> QED
    BY <2>1, <2>2 DEF Paced
<1> QED
  BY <1>2, <1>4, <1>5 DEF LimiterInv

\* A table that one client joins outgrows its capacity by one entry at most,
\* and the entry it may lose is in it.
LEMMA TableSize ==
  ASSUME LimiterInv, NEW c \in Clients, NEW time \in 0 .. MaxClock
  PROVE  LET table == Counted(c, time) IN
         /\ IsFiniteSet(Entries(table))
         /\ Cardinality(Entries(table)) <= Capacity + 1
         /\ Evictable(c, time, table) \subseteq Entries(table)
<1> DEFINE table == Counted(c, time)
<1> USE LimiterAssumption
<1>1. Entries(table) \subseteq Entries(attempts) \cup {c}
  BY DEF Entries, Counted, NoEntry
<1>2. /\ IsFiniteSet(Entries(attempts)) /\ Cardinality(Entries(attempts)) <= Capacity
      /\ Cardinality(Entries(attempts)) \in Nat
  BY FS_CardinalityType DEF LimiterInv
<1>3. IsFiniteSet({c}) /\ Cardinality({c}) = 1
  BY FS_Singleton
<1>4. Cardinality(Entries(table)) <= Cardinality(Entries(attempts)) + 1
  BY <1>1, <1>2, <1>3, Covered
<1>5. IsFiniteSet(Entries(attempts) \cup {c})
  BY <1>2, <1>3, FS_Union
<1>6. IsFiniteSet(Entries(table))
  BY <1>1, <1>5, FS_Subset
<1>7. Cardinality(Entries(table)) \in Nat
  BY <1>6, FS_CardinalityType
<1>8. c \in Entries(table)
  BY SMTT(30) DEF Entries, Counted, Current, LimiterInv, LimiterTypeOK
<1>9. Evictable(c, time, table) \subseteq Entries(table)
  BY <1>8 DEF Evictable
<1> QED
  BY <1>2, <1>4, <1>6, <1>7, <1>9

\* The client that is let through: its history with the new attempt.
LEMMA PacedClient ==
  ASSUME LimiterInv, NEW c \in Clients, NEW time \in 0 .. MaxClock, Paced(c), latest <= time,
         Current(c, time).count < MaxAttempts
  PROVE  LET h == Append(admitted[c], time) IN
         /\ \A i \in DOMAIN h : h[i] <= time
         /\ Bounded(h)
         /\ \E s \in Int : /\ WindowOf(h, s)
                           /\ s = Counted(c, time)[c].start /\ s <= time
                           /\ Cardinality(Within(h, s, s + Window)) <= Counted(c, time)[c].count
<1> DEFINE h == admitted[c]
           entry == attempts[c]
<1>1. /\ h \in Seq(0 .. MaxClock) /\ latest \in 0 .. MaxClock
      /\ entry \in [count : 0 .. MaxAttempts, start : 0 .. MaxClock]
  BY DEF LimiterInv, LimiterTypeOK
<1>2. Window \in Nat \ {0} /\ MaxAttempts \in Nat \ {0} /\ MaxClock \in Nat
  BY LimiterAssumption
<1>3. /\ \A i \in DOMAIN h : h[i] <= latest
      /\ Bounded(h)
  BY DEF Paced
<1>4. PICK s \in Int :
        /\ WindowOf(h, s)
        /\ entry.count > 0 => /\ s = entry.start /\ s <= latest
                              /\ Cardinality(Within(h, s, s + Window)) <= entry.count
        /\ entry.count = 0 => h = <<>> \/ s + Window <= latest
  BY DEF Paced
<1>5. /\ Counted(c, time)[c].count = Current(c, time).count + 1
      /\ Counted(c, time)[c].start = Current(c, time).start
  BY DEF Counted
<1>6. \A i \in DOMAIN Append(h, time) : Append(h, time)[i] <= time
  <2>1. /\ DOMAIN Append(h, time) = DOMAIN h \cup {Len(h) + 1}
        /\ Append(h, time)[Len(h) + 1] = time
        /\ \A i \in DOMAIN h : Append(h, time)[i] = h[i] /\ h[i] \in Int
    BY <1>1, AppendShape
  <2> QED
    BY <1>1, <1>2, <1>3, <2>1, SMTT(30)
<1>7. PICK w \in Int :
        /\ WindowOf(Append(h, time), w)
        /\ w = Counted(c, time)[c].start /\ w <= time
        /\ Cardinality(Within(Append(h, time), w, w + Window)) <= Counted(c, time)[c].count
  <2>1. CASE entry.count > 0 /\ ~Expired(entry, time)
    <3>1. Current(c, time) = entry
      BY <1>1, <2>1 DEF Current
    <3>2. /\ entry.count \in Nat /\ entry.count < MaxAttempts
          /\ s = entry.start /\ s <= time /\ time < s + Window
      BY <1>1, <1>2, <1>4, <2>1, <3>1, SMTT(30) DEF Expired
    <3>3. /\ WindowOf(Append(h, time), s)
          /\ Cardinality(Within(Append(h, time), s, s + Window)) <= entry.count + 1
      BY <1>1, <1>4, <2>1, <3>2, SameWindow
    <3> QED
      BY <1>5, <3>1, <3>2, <3>3
  <2>2. CASE entry.count = 0 \/ Expired(entry, time)
    <3>1. Current(c, time) = [count |-> 0, start |-> time]
      BY <2>2 DEF Current
    <3>2. PICK v \in Int : v + Window <= time /\ WindowOf(h, v)
      <4>1. CASE entry.count = 0 /\ h = <<>>
        <5>1. time - Window \in Int /\ (time - Window) + Window <= time
          BY <1>2
        <5> QED
          BY <4>1, <5>1, EmptyHistory
      <4>2. CASE ~(entry.count = 0 /\ h = <<>>)
        BY <1>1, <1>2, <1>4, <2>2, <4>2, SMTT(30) DEF Expired
      <4> QED
        BY <4>1, <4>2
    <3>3. /\ WindowOf(Append(h, time), time)
          /\ Cardinality(Within(Append(h, time), time, time + Window)) <= 1
      BY <1>1, <3>2, NewWindow
    <3>4. Counted(c, time)[c].count = 1 /\ Counted(c, time)[c].start = time
      BY <1>5, <3>1
    <3> QED
      BY <1>2, <3>3, <3>4
  <2> QED
    BY <1>1, <2>1, <2>2
<1>8. Bounded(Append(h, time))
  BY <1>1, <1>3, <1>7, BoundedAppend
<1> QED
  BY <1>6, <1>7, <1>8

\* The other clients: an entry that is dropped belongs to a window that is over.
LEMMA PacedOther ==
  ASSUME LimiterInv, NEW c \in Clients, NEW d \in Clients, d # c, NEW time \in 0 .. MaxClock,
         Paced(d), latest <= time,
         attempts'[d] = Counted(c, time)[d], admitted'[d] = admitted[d], latest' = time
  PROVE  Paced(d)'
<1> DEFINE h == admitted[d]
           entry == attempts[d]
<1>1. /\ h \in Seq(0 .. MaxClock) /\ latest \in 0 .. MaxClock
      /\ entry \in [count : 0 .. MaxAttempts, start : 0 .. MaxClock]
  BY DEF LimiterInv, LimiterTypeOK
<1>2. Window \in Nat \ {0} /\ MaxAttempts \in Nat \ {0} /\ MaxClock \in Nat
  BY LimiterAssumption
<1>3. /\ \A i \in DOMAIN h : h[i] <= latest
      /\ Bounded(h)
  BY DEF Paced
<1>4. PICK s \in Int :
        /\ WindowOf(h, s)
        /\ entry.count > 0 => /\ s = entry.start /\ s <= latest
                              /\ Cardinality(Within(h, s, s + Window)) <= entry.count
        /\ entry.count = 0 => h = <<>> \/ s + Window <= latest
  BY DEF Paced
<1>5. \A i \in DOMAIN h : h[i] <= time
  <2>1. \A i \in DOMAIN h : h[i] \in Int
    BY <1>1, AppendShape
  <2> QED
    BY <1>1, <1>2, <1>3, <2>1
<1>6. attempts'[d] = IF Expired(entry, time) THEN NoEntry ELSE entry
  BY DEF Counted
<1>7. /\ attempts'[d].count > 0 =>
           /\ s = attempts'[d].start /\ s <= time
           /\ Cardinality(Within(h, s, s + Window)) <= attempts'[d].count
      /\ attempts'[d].count = 0 => h = <<>> \/ s + Window <= time
  BY <1>1, <1>2, <1>4, <1>6, SMTT(30) DEF Expired, NoEntry
<1>8. WindowOf(h, s) /\ Bounded(h)
  BY <1>3, <1>4
<1>9. /\ \A i \in DOMAIN admitted'[d] : admitted'[d][i] <= latest'
      /\ Bounded(admitted'[d]) /\ WindowOf(admitted'[d], s)
      /\ attempts'[d].count > 0 =>
           /\ s = attempts'[d].start /\ s <= latest'
           /\ Cardinality(Within(admitted'[d], s, s + Window)) <= attempts'[d].count
      /\ attempts'[d].count = 0 => admitted'[d] = <<>> \/ s + Window <= latest'
  BY <1>5, <1>7, <1>8
<1> QED
  BY <1>9 DEF Paced

\* A client without history and without entry.
LEMMA PacedEmpty ==
  ASSUME NEW c \in Clients, admitted'[c] = <<>>, attempts'[c] = NoEntry
  PROVE  Paced(c)'
<1>1. WindowOf(<<>>, 0) /\ Bounded(<<>>)
  BY EmptyHistory
<1>2. attempts'[c].count = 0
  BY DEF NoEntry
<1>3. WindowOf(admitted'[c], 0) /\ Bounded(admitted'[c])
  BY <1>1
<1> QED
  BY <1>2, <1>3 DEF Paced

\* reserve lets an attempt through.
LEMMA ReserveStep ==
  ASSUME LimiterInv, NEW a \in Attempts, Reserve(a)
  PROVE  LimiterInv'
<1> USE LimiterAssumption
<1> DEFINE c == login[a].client
           time == login[a].time
           table == Counted(c, time)
           Row == [count : 0 .. MaxAttempts, start : 0 .. MaxClock]
<1>1. c \in Clients /\ time \in 0 .. MaxClock /\ latest \in 0 .. MaxClock /\ swapped \in BOOLEAN
  BY SMTT(30) DEF LimiterInv, LimiterTypeOK
<1>2. Current(c, time).count < MaxAttempts
  BY DEF Reserve
<1>3. PICK lost \in SUBSET Clients :
        /\ \/ lost = {} /\ Cardinality(Entries(table)) <= Capacity
           \/ \E l \in Evictable(c, time, table) : lost = {l}
        /\ \A d \in Clients : attempts'[d] = IF d \in lost THEN NoEntry ELSE table[d]
        /\ attempts' \in [Clients -> {NoEntry} \cup {table[d] : d \in Clients}]
        /\ admitted' = Remember(c, time, lost)
  <2>1. CASE Cardinality(Entries(table)) <= Capacity
    <3>1. attempts' = table /\ admitted' = Remember(c, time, {})
      BY <2>1 DEF Reserve
    <3> QED
      BY <2>1, <3>1, ZenonT(30) DEF Counted
  <2>2. CASE ~(Cardinality(Entries(table)) <= Capacity)
    <3>1. PICK l \in Evictable(c, time, table) :
            /\ attempts' = [table EXCEPT ![l] = NoEntry]
            /\ admitted' = Remember(c, time, {l})
      BY <2>2 DEF Reserve
    <3>2. l \in Clients
      BY <1>1, TableSize DEF Entries
    <3>3. attempts' = [d \in Clients |-> IF d \in {l} THEN NoEntry ELSE table[d]]
      BY <3>1 DEF Counted
    <3> QED
      BY <3>1, <3>2, <3>3
  <2> QED
    BY <2>1, <2>2
<1>4. LimiterTypeOK'
  <2>1. NoEntry \in Row
    BY DEF NoEntry
  <2>2. Current(c, time) \in Row
    BY <1>1 DEF Current, LimiterInv, LimiterTypeOK
  <2>3. [count |-> Current(c, time).count + 1, start |-> Current(c, time).start] \in Row
    BY <1>2, <2>2
  <2>4. \A d \in Clients : attempts[d] \in Row
    BY DEF LimiterInv, LimiterTypeOK
  <2>5. \A d \in Clients : table[d] \in Row
    BY <2>1, <2>3, <2>4 DEF Counted
  <2>6. attempts' \in [Clients -> Row]
    BY <1>3, <2>1, <2>5
  <2>7. admitted' \in [Clients -> Seq(0 .. MaxClock)]
    <3>1. \A d \in Clients : admitted[d] \in Seq(0 .. MaxClock)
      BY DEF LimiterInv, LimiterTypeOK
    <3>2. Append(admitted[c], time) \in Seq(0 .. MaxClock)
      BY <1>1, <3>1, AppendShape
    <3>3. <<>> \in Seq(0 .. MaxClock)
      OBVIOUS
    <3> QED
      BY <1>3, <3>1, <3>2, <3>3 DEF Remember
  <2>8. login' \in [Attempts -> [at : {"idle", "timed", "checking"}, client : Clients,
                                 time : 0 .. MaxClock]]
    BY ZenonT(30) DEF LimiterInv, LimiterTypeOK, Reserve
  <2>9. latest' \in 0 .. MaxClock /\ now' \in 0 .. MaxClock
    BY <1>1 DEF LimiterInv, LimiterTypeOK, Reserve
  <2>10. swapped' \in BOOLEAN
    BY DEF Reserve
  <2> QED
    BY <2>6, <2>7, <2>8, <2>9, <2>10 DEF LimiterTypeOK
<1>5. IsFiniteSet(Entries(attempts')) /\ Cardinality(Entries(attempts')) <= Capacity
  <2>1. /\ IsFiniteSet(Entries(table)) /\ Cardinality(Entries(table)) <= Capacity + 1
        /\ Evictable(c, time, table) \subseteq Entries(table)
    BY <1>1, TableSize
  <2>2. Entries(attempts') = Entries(table) \ lost
    BY <1>3 DEF Entries, NoEntry
  <2> HIDE DEF table, c, time
  <2>3. CASE lost = {} /\ Cardinality(Entries(table)) <= Capacity
    <3>1. Entries(attempts') = Entries(table)
      BY <2>2, <2>3
    <3> QED
      BY <2>1, <2>3, <3>1
  <2>4. ASSUME NEW l \in Evictable(c, time, table), lost = {l}
        PROVE  IsFiniteSet(Entries(attempts')) /\ Cardinality(Entries(attempts')) <= Capacity
    <3>1. l \in Entries(table) /\ Entries(attempts') = Entries(table) \ {l}
      BY <2>1, <2>2, <2>4
    <3>2. /\ IsFiniteSet(Entries(table) \ {l})
          /\ Cardinality(Entries(table) \ {l}) = Cardinality(Entries(table)) - 1
      BY <2>1, <3>1, FS_RemoveElement
    <3>3. Cardinality(Entries(table)) \in Nat
      BY <2>1, FS_CardinalityType
    <3> QED
      BY <2>1, <3>1, <3>2, <3>3
  <2> QED
    BY <1>3, <2>3, <2>4
<1>6. ASSUME ~swapped', NEW d \in Clients
      PROVE  Paced(d)'
  <2>1. ~swapped /\ latest <= time /\ latest' = time
    <3>1. /\ swapped' = (swapped \/ time < latest)
          /\ latest' = IF time > latest THEN time ELSE latest
      BY DEF Reserve
    <3>2. ~swapped /\ ~(time < latest)
      BY <1>6, <3>1
    <3> QED
      BY <1>1, <3>1, <3>2
  <2>2. Paced(d) /\ Paced(c)
    BY <1>1, <2>1 DEF LimiterInv
  <2>3. CASE d \in lost
    BY <1>3, <2>3, PacedEmpty DEF Remember
  <2>4. CASE d \notin lost /\ d # c
    <3>1. attempts'[d] = table[d] /\ admitted'[d] = admitted[d]
      BY <1>3, <2>4, SMTT(30) DEF Remember
    <3> QED
      BY <1>1, <2>1, <2>2, <2>4, <3>1, PacedOther
  <2>5. CASE d \notin lost /\ d = c
    <3>1. attempts'[d] = table[c] /\ admitted'[d] = Append(admitted[c], time)
      BY <1>3, <2>5, ZenonT(30) DEF Remember
    <3>2. /\ \A i \in DOMAIN admitted'[d] : admitted'[d][i] <= time
          /\ Bounded(admitted'[d])
          /\ \E s \in Int : /\ WindowOf(admitted'[d], s)
                            /\ s = table[c].start /\ s <= time
                            /\ Cardinality(Within(admitted'[d], s, s + Window)) <= table[c].count
      BY <1>1, <1>2, <2>1, <2>2, <3>1, PacedClient, ZenonT(30)
    <3>3. table[c].count > 0
      <4>1. Current(c, time).count \in Nat
        BY <1>1, SMTT(30) DEF Current, LimiterInv, LimiterTypeOK
      <4> QED
        BY <1>1, <4>1 DEF Counted
    <3>4. ~(table[c].count = 0)
      BY <3>3
    <3> HIDE DEF table
    <3> QED
      BY <2>1, <3>1, <3>2, <3>3, <3>4, ZenonT(30) DEF Paced
  <2> QED
    BY <2>3, <2>4, <2>5
<1> QED
  BY <1>4, <1>5, <1>6 DEF LimiterInv

\* Each step keeps the inductive invariant.
LEMMA LimiterStepInv == LimiterInv /\ [LimiterNext]_limiterVars => LimiterInv'
<1> SUFFICES ASSUME LimiterInv, [LimiterNext]_limiterVars PROVE LimiterInv'
  OBVIOUS
<1> USE LimiterAssumption
<1>0. AnyClient \in Clients
  BY DEF AnyClient
<1>1. ASSUME UNCHANGED <<attempts, admitted, latest, swapped>>, LimiterTypeOK'
      PROVE  LimiterInv'
  <2>1. \A c \in Clients : Paced(c) => Paced(c)'
    BY <1>1 DEF Paced
  <2> QED
    BY <1>1, <2>1 DEF LimiterInv
<1>2. CASE Tick
  <2>1. now' \in 0 .. MaxClock
    BY <1>2 DEF Tick, LimiterInv, LimiterTypeOK
  <2>2. UNCHANGED <<attempts, login, admitted, latest, swapped>>
    BY <1>2 DEF Tick
  <2>3. LimiterTypeOK'
    BY <2>1, <2>2, SMTT(30) DEF LimiterInv, LimiterTypeOK
  <2> QED
    BY <1>1, <2>2, <2>3
<1>3. ASSUME NEW a \in Attempts, NEW c \in Clients, ReadClock(a, c)
      PROVE  LimiterInv'
  BY <1>1, <1>3 DEF ReadClock, LimiterInv, LimiterTypeOK
<1>4. ASSUME NEW a \in Attempts, Refuse(a) \/ Denied(a)
      PROVE  LimiterInv'
  <2>1. NoLogin(AnyClient) \in [at : {"idle", "timed", "checking"}, client : Clients,
                                time : 0 .. MaxClock]
    BY <1>0 DEF NoLogin
  <2> QED
    BY <1>1, <1>4, <2>1 DEF Refuse, Denied, LimiterInv, LimiterTypeOK
<1>5. ASSUME NEW a \in Attempts, Reset(a)
      PROVE  LimiterInv'
  <2> DEFINE c == login[a].client
  <2>1. c \in Clients
    BY DEF LimiterInv, LimiterTypeOK
  <2>2. NoLogin(AnyClient) \in [at : {"idle", "timed", "checking"}, client : Clients,
                                time : 0 .. MaxClock]
    BY <1>0 DEF NoLogin
  <2>3. NoEntry \in [count : 0 .. MaxAttempts, start : 0 .. MaxClock] /\ <<>> \in Seq(0 .. MaxClock)
    BY DEF NoEntry
  <2>4. LimiterTypeOK'
    BY <1>5, <2>2, <2>3 DEF Reset, LimiterInv, LimiterTypeOK
  <2>5. Entries(attempts') \subseteq Entries(attempts)
    BY <1>5 DEF Reset, Entries, NoEntry, LimiterInv, LimiterTypeOK
  <2>6. IsFiniteSet(Entries(attempts')) /\ Cardinality(Entries(attempts')) <= Capacity
    <3>1. IsFiniteSet(Entries(attempts)) /\ Cardinality(Entries(attempts)) <= Capacity
      BY DEF LimiterInv
    <3>2. /\ IsFiniteSet(Entries(attempts'))
          /\ Cardinality(Entries(attempts')) <= Cardinality(Entries(attempts))
      BY <2>5, <3>1, FS_Subset
    <3>3. Cardinality(Entries(attempts)) \in Nat /\ Cardinality(Entries(attempts')) \in Nat
      BY <3>1, <3>2, FS_CardinalityType
    <3> QED
      BY <3>1, <3>2, <3>3
  <2>7. ASSUME NEW d \in Clients, Paced(d)
        PROVE  Paced(d)'
    <3>1. CASE d = c
      BY <1>5, <2>1, <3>1, PacedEmpty DEF Reset, LimiterInv, LimiterTypeOK
    <3>2. CASE d # c
      <4>1. admitted'[d] = admitted[d] /\ attempts'[d] = attempts[d] /\ latest' = latest
        BY <1>5, <3>2 DEF Reset, LimiterInv, LimiterTypeOK
      <4> QED
        BY <2>7, <4>1 DEF Paced
    <3> QED
      BY <3>1, <3>2
  <2>8. swapped' = swapped
    BY <1>5 DEF Reset
  <2> QED
    BY <2>4, <2>6, <2>7, <2>8 DEF LimiterInv
<1>6. CASE UNCHANGED limiterVars
  BY <1>1, <1>6 DEF limiterVars, LimiterInv, LimiterTypeOK
<1> QED
  BY <1>2, <1>3, <1>4, <1>5, <1>6, ReserveStep DEF LimiterNext

\* The table of login attempts keeps within its capacity, and an address gets
\* through at most (k + 1) * MaxAttempts times in k windows, for any window, limit
\* and number of addresses, as long as no attempt overtakes another.
THEOREM LimiterCorrect == LimiterSpec => [](LimiterTypeOK /\ AttemptsBounded)
<1>1. LimiterInv => LimiterTypeOK /\ AttemptsBounded
  <2> SUFFICES ASSUME LimiterInv PROVE LimiterTypeOK /\ AttemptsBounded
    OBVIOUS
  <2> USE LimiterAssumption
  <2>1. ASSUME ~swapped, NEW c \in Clients, NEW from \in 0 .. MaxClock, NEW k \in 1 .. 2
        PROVE  AdmittedIn(c, from, from + k * Window) <= (k + 1) * MaxAttempts
    <3>1. Bounded(admitted[c])
      BY <2>1 DEF LimiterInv, Paced
    <3>2. \A to : AdmittedIn(c, from, to) = Cardinality(Within(admitted[c], from, to))
      BY DEF AdmittedIn, Within
    <3>3. Window \in Nat /\ MaxAttempts \in Nat
      OBVIOUS
    <3>4. CASE k = 1
      <4>1. from + k * Window = from + Window /\ (k + 1) * MaxAttempts = MaxAttempts + MaxAttempts
        BY <3>3, <3>4
      <4> QED
        BY <3>1, <3>2, <4>1 DEF Bounded
    <3>5. CASE k = 2
      <4>1. /\ from + k * Window = from + Window + Window
            /\ (k + 1) * MaxAttempts = MaxAttempts + MaxAttempts + MaxAttempts
        BY <3>3, <3>5
      <4> QED
        BY <3>1, <3>2, <4>1 DEF Bounded
    <3> QED
      BY <3>4, <3>5
  <2> QED
    BY <2>1 DEF LimiterInv, AttemptsBounded
<1> QED
  BY LimiterInitInv, LimiterStepInv, <1>1, PTL DEF LimiterSpec

-----------------------------------------------------------------------------
(* MCPlatform *)

\* A behaviour of the platform is one of each of its parts, which act on nothing of
\* each other's: so what is proved of a part holds of the composition.
LEMMA PartsOfPlatform == PlatformSpec => AuditSpec /\ LimiterSpec /\ ProvisionSpec
<1>1. PlatformInit => AuditInit /\ LimiterInit /\ ProvisionInit
  BY DEF PlatformInit
<1>2. [PlatformNext]_<<auditVars, limiterVars, provisionVars, part>>
        => [AuditNext]_auditVars /\ [LimiterNext]_limiterVars /\ [ProvisionNext]_provisionVars
  BY DEF PlatformNext
<1> QED
  BY <1>1, <1>2, PTL DEF PlatformSpec, AuditSpec, LimiterSpec, ProvisionSpec

\* What holds of the parts holds of the platform the runs check: the types, the
\* walks through the log, the bound on attempts and the numbers of accounts.
THEOREM PlatformCorrect ==
  PlatformSpec => [](PlatformTypeOK /\ AuditWalkComplete /\ AttemptsBounded
                     /\ IdentityUnlessRaced)
<1>1. PlatformTypeOK <=> AuditTypeOK /\ LimiterTypeOK /\ ProvisionTypeOK
  BY DEF PlatformTypeOK
<1> QED
  BY <1>1, PartsOfPlatform, AuditCorrect, LimiterCorrect, ProvisionCorrect, PTL

\* Creations of directory accounts use their slots as a pool beside the other parts.
THEOREM PlatformRefinesPool == PlatformSpec => ImplementsDirectoryPool
BY PartsOfPlatform, ProvisionRefinesPool, PTL
=============================================================================
