---------------------------- MODULE LdapProvision ----------------------------
(***************************************************************************)
(* Creating a directory account for a platform user: createLinkedLDAPUser  *)
(* (internal/web/platform_users.go) and Client.CreateUser                  *)
(* (internal/ldapdirectory/client.go).  The client searches for the name,  *)
(* for the UID number and for the group, and then adds the entry: four     *)
(* requests to a directory that other requests and other tools change in   *)
(* between.  The directory is external: it refuses a second entry of the   *)
(* same DN and knows nothing of UID numbers being unique; an answer may be *)
(* lost after the entry was added.                                         *)
(***************************************************************************)
EXTENDS Integers, FiniteSets

CONSTANTS Creates,        \* handler goroutines
          UserNames,
          UidNumbers,
          DirectorySlots  \* capacity of a.directorySlots

ASSUME ProvisionAssumption == DirectorySlots \in Nat \ {0} /\ IsFiniteSet(Creates)

VARIABLES
  directory,  \* the posixAccount entries; raced is history
  slotsUsed,  \* len(a.directorySlots)
  create      \* the requests, with what they recorded in the audit log

provisionVars == <<directory, slotsUsed, create>>

Steps == {"new", "name", "number", "group", "add", "done"}
AuditOutcomes == {"none", "denied", "failure", "success"}
Entry == [name : UserNames, number : UidNumbers, raced : BOOLEAN]

ProvisionTypeOK ==
  /\ directory \subseteq Entry
  /\ slotsUsed \in 0 .. DirectorySlots
  /\ create \in [Creates -> [step : Steps, name : UserNames, number : UidNumbers,
                             raced : BOOLEAN, audit : AuditOutcomes]]

ProvisionInit ==
  /\ directory = {}
  /\ slotsUsed = 0
  /\ create \in [Creates -> [step : {"new"}, name : UserNames, number : UidNumbers,
                             raced : {FALSE}, audit : {"none"}]]

Outcome(c, outcome) == create' = [create EXCEPT ![c].step = "done", ![c].audit = outcome]

\* The form is invalid, the platform user unknown or disabled; no slot free.
NotAdmitted(c) ==
  /\ create[c].step = "new"
  /\ \/ Outcome(c, "denied")
     \/ slotsUsed = DirectorySlots /\ Outcome(c, "failure")
  /\ UNCHANGED <<directory, slotsUsed>>

TakeSlot(c) ==
  /\ create[c].step = "new"
  /\ slotsUsed < DirectorySlots
  /\ slotsUsed' = slotsUsed + 1
  /\ create' = [create EXCEPT ![c].step = "name"]
  /\ UNCHANGED directory

\* One search of ensureUserIdentityAvailable that finds nothing in the way.
Pass(c, from, to) ==
  /\ create[c].step = from
  /\ create' = [create EXCEPT ![c].step = to]
  /\ UNCHANGED <<directory, slotsUsed>>

NameFree(c) ==
  /\ \A e \in directory : e.name # create[c].name
  /\ Pass(c, "name", "number")

\* Mutant of NumberFree: the answer of the search is ignored.
NumberIgnored(c) == Pass(c, "number", "group")

NumberFree(c) ==
  /\ \A e \in directory : e.number # create[c].number
  /\ Pass(c, "number", "group")

\* Exactly one group with the number (external, constant).
GroupExists(c) == Pass(c, "group", "add")

\* Mutant of Fail: a request that got no slot gives one back.
FailWithoutSlot(c) ==
  /\ create[c].step # "done"
  /\ slotsUsed' = slotsUsed - 1
  /\ Outcome(c, "failure")
  /\ UNCHANGED directory

\* A search fails or finds what must not or misses what must be there.
Fail(c) ==
  /\ create[c].step \in {"name", "number", "group", "add"}
  /\ slotsUsed' = slotsUsed - 1
  /\ Outcome(c, "failure")
  /\ UNCHANGED directory

\* Whoever is between its searches and its add has been overtaken.
Overtaken(others) ==
  [c \in Creates |-> [create[c] EXCEPT !.raced =
     @ \/ (c \in others /\ create[c].step \in {"name", "number", "group", "add"})]]

\* The directory takes the entry; the answer arrives, or is lost.
Add(c) ==
  /\ create[c].step = "add"
  /\ \A e \in directory : e.name # create[c].name
  /\ directory' = directory \cup
       {[name |-> create[c].name, number |-> create[c].number, raced |-> create[c].raced]}
  /\ slotsUsed' = slotsUsed - 1
  /\ \E outcome \in {"success", "failure"} :
       create' = [Overtaken(Creates \ {c}) EXCEPT ![c].step = "done", ![c].audit = outcome]

\* Another tool adds an account, with what it found free.
OtherWriter ==
  /\ \E name \in UserNames, number \in UidNumbers :
       /\ \A e \in directory : e.name # name /\ e.number # number
       /\ directory' = directory \cup {[name |-> name, number |-> number, raced |-> FALSE]}
  /\ create' = Overtaken(Creates)
  /\ UNCHANGED slotsUsed

ProvisionNext ==
  \/ OtherWriter
  \/ \E c \in Creates : \/ NotAdmitted(c) \/ TakeSlot(c) \/ NameFree(c) \/ NumberFree(c)
                        \/ GroupExists(c) \/ Fail(c) \/ Add(c)

ProvisionSpec == ProvisionInit /\ [][ProvisionNext]_provisionVars

----------------------------------------------------------------------------
\* The requests that hold a slot of a.directorySlots.
Working == {"name", "number", "group", "add"}
Holders == {c \in Creates : create[c].step \in Working}

(* The creation of a directory account holds a slot from its first search  *)
(* to its last answer, whichever way it ends (platform_users.go:119,       *)
(* ldap.go:213-221), as SlotPool says.                                     *)
DirectoryPool == INSTANCE SlotPool WITH
  PoolClients <- Creates, Limit <- DirectorySlots, holders <- Holders, used <- slotsUsed

ImplementsDirectoryPool == DirectoryPool!Spec

(* Two accounts share a UID number only if one of them was added by a      *)
(* request that the directory changed under after its searches began       *)
(* (client.go:349-366); no two share a name; and a success in the audit    *)
(* log means that the account is there.                                    *)
IdentityUnlessRaced ==
  /\ \A e, f \in directory : e # f => e.name # f.name /\ (e.number = f.number => e.raced \/ f.raced)
  /\ \A c \in Creates : create[c].audit = "success" =>
       \E e \in directory : e.name = create[c].name /\ e.number = create[c].number
=============================================================================
