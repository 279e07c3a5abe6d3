---------------------------- MODULE LoginLimiter ----------------------------
(***************************************************************************)
(* loginAttemptStore (internal/web/app.go): how often one address may try  *)
(* to log in.  reserve counts an attempt in a window that starts with the  *)
(* first one; reset forgets the address after a login that succeeded.      *)
(* time.Now() is read before reserve takes the lock, so attempts reach the *)
(* table in another order than that of their times.                        *)
(***************************************************************************)
EXTENDS Naturals, FiniteSets, Sequences

CONSTANTS Clients,      \* addresses
          Attempts,     \* login requests in flight
          Window,       \* 15 minutes
          MaxAttempts,  \* 5
          Capacity,     \* 4096 entries
          MaxClock      \* bound on the clock

ASSUME LimiterAssumption ==
  /\ Clients # {}
  /\ {Window, MaxAttempts, Capacity} \subseteq Nat \ {0}
  /\ MaxClock \in Nat

VARIABLES
  now,       \* the clock
  attempts,  \* s.attempts; count 0 is no entry
  login,     \* the requests: where they are, for whom, at what time
  \* History variables: they record what happened and guard nothing.
  admitted,  \* times of the attempts let through, since a reset or an eviction
  latest,    \* the latest time an attempt brought to the table
  swapped    \* an attempt reached the table after one with a later time

limiterVars == <<now, attempts, login, admitted, latest, swapped>>

NoEntry == [count |-> 0, start |-> 0]
NoLogin(c) == [at |-> "idle", client |-> c, time |-> 0]
AnyClient == CHOOSE c \in Clients : TRUE

LimiterTypeOK ==
  /\ now \in 0 .. MaxClock
  /\ attempts \in [Clients -> [count : 0 .. MaxAttempts, start : 0 .. MaxClock]]
  /\ login \in [Attempts -> [at : {"idle", "timed", "checking"}, client : Clients,
                             time : 0 .. MaxClock]]
  /\ admitted \in [Clients -> Seq(0 .. MaxClock)]
  /\ latest \in 0 .. MaxClock
  /\ swapped \in BOOLEAN

LimiterInit ==
  /\ now = 0
  /\ attempts = [c \in Clients |-> NoEntry]
  /\ login = [a \in Attempts |-> NoLogin(AnyClient)]
  /\ admitted = [c \in Clients |-> <<>>]
  /\ latest = 0
  /\ swapped = FALSE

Entries(table) == {c \in Clients : table[c].count > 0}

\* time - start >= 15*time.Minute, where start may lie after time.
Expired(entry, time) == time >= entry.start + Window

\* Mutant of Current: the window is one tick too short.
CurrentShort(c, time) ==
  IF attempts[c].count = 0 \/ time + 1 >= attempts[c].start + Window
    THEN [count |-> 0, start |-> time] ELSE attempts[c]

Current(c, time) ==
  IF attempts[c].count = 0 \/ Expired(attempts[c], time)
    THEN [count |-> 0, start |-> time] ELSE attempts[c]

\* The table after the attempt is counted and expired entries are dropped.
Counted(c, time) ==
  [d \in Clients |->
     IF d = c THEN [count |-> Current(c, time).count + 1, start |-> Current(c, time).start]
     ELSE IF Expired(attempts[d], time) THEN NoEntry ELSE attempts[d]]

\* Whom a table that is too large may lose: one of the oldest of the others
\* that started by then, in the order of a Go map, or else the client itself.
Evictable(c, time, table) ==
  LET others == {d \in Entries(table) \ {c} : table[d].start <= time} IN
  IF others = {} THEN {c}
  ELSE {d \in others : \A e \in others : table[d].start <= table[e].start}

----------------------------------------------------------------------------
Tick ==
  /\ now < MaxClock
  /\ now' = now + 1
  /\ UNCHANGED <<attempts, login, admitted, latest, swapped>>

ReadClock(a, c) ==
  /\ login[a].at = "idle"
  /\ login' = [login EXCEPT ![a] = [at |-> "timed", client |-> c, time |-> now]]
  /\ UNCHANGED <<now, attempts, admitted, latest, swapped>>

\* History is kept as long as the table keeps the entry or has let it expire.
Remember(c, time, lost) ==
  [d \in Clients |-> IF d \in lost THEN <<>>
                     ELSE IF d = c THEN Append(admitted[c], time) ELSE admitted[d]]

Reserve(a) ==
  LET c == login[a].client
      time == login[a].time
      table == Counted(c, time)
  IN
  /\ login[a].at = "timed"
  /\ Current(c, time).count < MaxAttempts
  /\ login' = [login EXCEPT ![a].at = "checking"]
  /\ IF Cardinality(Entries(table)) <= Capacity
       THEN /\ attempts' = table
            /\ admitted' = Remember(c, time, {})
       ELSE \E lost \in Evictable(c, time, table) :
              /\ attempts' = [table EXCEPT ![lost] = NoEntry]
              /\ admitted' = Remember(c, time, {lost})
  /\ latest' = IF time > latest THEN time ELSE latest
  /\ swapped' = (swapped \/ time < latest)
  /\ UNCHANGED now

\* 429: nothing is counted.
Refuse(a) ==
  /\ login[a].at = "timed"
  /\ Current(login[a].client, login[a].time).count >= MaxAttempts
  /\ login' = [login EXCEPT ![a] = NoLogin(AnyClient)]
  /\ UNCHANGED <<now, attempts, admitted, latest, swapped>>

Denied(a) ==
  /\ login[a].at = "checking"
  /\ login' = [login EXCEPT ![a] = NoLogin(AnyClient)]
  /\ UNCHANGED <<now, attempts, admitted, latest, swapped>>

\* The credentials were right: reset.
Reset(a) ==
  /\ login[a].at = "checking"
  /\ attempts' = [attempts EXCEPT ![login[a].client] = NoEntry]
  /\ admitted' = [admitted EXCEPT ![login[a].client] = <<>>]
  /\ login' = [login EXCEPT ![a] = NoLogin(AnyClient)]
  /\ UNCHANGED <<now, latest, swapped>>

LimiterNext ==
  \/ Tick
  \/ \E a \in Attempts : \/ \E c \in Clients : ReadClock(a, c)
                         \/ Reserve(a) \/ Refuse(a) \/ Denied(a) \/ Reset(a)

LimiterSpec == LimiterInit /\ [][LimiterNext]_limiterVars

----------------------------------------------------------------------------
AdmittedIn(c, from, to) ==
  Cardinality({i \in DOMAIN admitted[c] : from <= admitted[c][i] /\ admitted[c][i] < to})

(* The table never outgrows its capacity.  An address that is neither       *)
(* evicted nor reset gets through at most (k + 1) * 5 times in any k * 15   *)
(* minutes, unless attempts overtook each other on the way to the lock: a   *)
(* later one may drop a window that an earlier one then starts again        *)
(* (app.go:1270, 1278, 1283).                                               *)
AttemptsBounded ==
  /\ Cardinality(Entries(attempts)) <= Capacity
  /\ swapped \/ \A c \in Clients, from \in 0 .. MaxClock, k \in 1 .. 2 :
                  AdmittedIn(c, from, from + k * Window) <= (k + 1) * MaxAttempts
=============================================================================
