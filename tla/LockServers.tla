----------------------------- MODULE LockServers -----------------------------
(***************************************************************************)
(* The lock servers of distributed mode for one resource: the lock table   *)
(* of each server (src/cmd/local-locker.go), its REST handlers and the     *)
(* lock maintenance (lock-rest-server.go), the client that calls them      *)
(* (lock-rest-client.go) and, as an external part, dsync, which asks all   *)
(* servers and holds the lock when a quorum granted it.  Calls and answers *)
(* get lost, servers restart and forget their table, and with a server die *)
(* the owners that ran in it.                                              *)
(***************************************************************************)
EXTENDS Naturals, Sequences, FiniteSets, SequencesExt

CONSTANTS
    Servers,      \* the servers of the distributed setup
    Owners,       \* lock operations, each with its UID
    Home,         \* owner -> server it runs in
    Writer,       \* owner -> whether it wants the write lock
    Worlds        \* bounds: sets of [tries, restarts, lost, checks], see left

VARIABLES
    lockMap,   \* server -> sequence of [uid, writer]; empty: no entry for the resource
    connected, \* owner, server -> is the REST client online
    own,       \* owner -> [pc, todo, got]: the dsync operation
    check,     \* server -> [uid, todo]: the entry its maintenance is checking
    left,      \* what may still happen: rounds of asking, restarts of servers,
               \* calls or answers lost, entries checked by the maintenance
    taken      \* history: owner -> who took its entry from a server

vars == <<lockMap, connected, own, check, left, taken>>

Entry(o) == [uid |-> o, writer |-> Writer[o]]
NoCheck == [uid |-> {}, todo |-> {}]

-----------------------------------------------------------------------------
(* localLocker: a table and its answer.  Tables are sequences, as the code *)
(* appends read locks and removes the first entry with the UID.            *)

isWriteLock(lri) == Len(lri) = 1 /\ lri[1].writer

Holds(lri, o) == \E i \in DOMAIN lri : lri[i].uid = o

removeEntry(lri, o) ==
    IF Holds(lri, o)
    THEN RemoveAt(lri, CHOOSE i \in DOMAIN lri :
                          lri[i].uid = o /\ \A j \in 1 .. i - 1 : lri[j].uid # o)
    ELSE lri

(* Mutant of Free: Lock refuses only a write-locked resource.              *)
MutFreeIgnoresReaders(lri, o) == ~isWriteLock(lri)

(* Granted to o?                                                           *)
Free(lri, o) == IF Writer[o] THEN lri = <<>> ELSE ~isWriteLock(lri)

LockOrRLock(lri, o) == IF Free(lri, o) THEN Append(lri, Entry(o)) ELSE lri

(* Unlock refuses a read-locked resource and RUnlock a write-locked one.   *)
UnlockOrRUnlock(lri, o) ==
    IF lri # <<>> /\ isWriteLock(lri) = Writer[o] THEN removeEntry(lri, o) ELSE lri

Expired(lri, o) == ~Holds(lri, o)

-----------------------------------------------------------------------------
(* A call of owner o to server s: it and its answer arrive, the answer is  *)
(* lost, or the call is.  A network error takes the REST client offline,   *)
(* when it fails at once, until it is tried again after three seconds.     *)
(* answered and unanswered are the owner's next state in either case.      *)

Call(o, s, table, answered, unanswered) ==
    \/ /\ connected[o][s]
       /\ lockMap' = [lockMap EXCEPT ![s] = table]
       /\ own' = [own EXCEPT ![o] = answered]
       /\ UNCHANGED <<connected, left>>
    \/ /\ connected[o][s] /\ left.lost > 0
       /\ left' = [left EXCEPT !.lost = @ - 1]
       /\ connected' = [connected EXCEPT ![o][s] = FALSE]
       /\ \/ lockMap' = [lockMap EXCEPT ![s] = table]
          \/ UNCHANGED lockMap
       /\ own' = [own EXCEPT ![o] = unanswered]
    \/ /\ ~connected[o][s]
       /\ own' = [own EXCEPT ![o] = unanswered]
       /\ UNCHANGED <<lockMap, connected, left>>

Reconnect(o, s) ==
    /\ ~connected[o][s]
    /\ connected' = [connected EXCEPT ![o][s] = TRUE]
    /\ UNCHANGED <<lockMap, own, check, left, taken>>

-----------------------------------------------------------------------------
(* dsync (external): all servers are asked, a quorum makes the lock held,  *)
(* without one what was granted is given back.                             *)

LockQuorum(o) == IF Writer[o] THEN Cardinality(Servers) \div 2 + 1
             ELSE (Cardinality(Servers) + 1) \div 2

Begin(o) ==
    /\ own[o].pc = "idle" /\ left.tries > 0
    /\ left' = [left EXCEPT !.tries = @ - 1]
    /\ own' = [own EXCEPT ![o] = [pc |-> "ask", todo |-> Servers, got |-> {}]]
    /\ UNCHANGED <<lockMap, connected, check, taken>>

Ask(o, s) ==
    /\ own[o].pc = "ask" /\ s \in own[o].todo
    /\ LET asked == [own[o] EXCEPT !.todo = @ \ {s}] IN
       Call(o, s, LockOrRLock(lockMap[s], o),
            IF Free(lockMap[s], o) THEN [asked EXCEPT !.got = @ \cup {s}] ELSE asked, asked)
    /\ UNCHANGED <<check, taken>>

Decide(o) ==
    /\ own[o].pc = "ask" /\ own[o].todo = {}
    /\ own' = [own EXCEPT ![o].pc = IF Cardinality(own[o].got) >= LockQuorum(o) THEN "held" ELSE "release",
                          ![o].todo = own[o].got]
    /\ UNCHANGED <<lockMap, connected, check, left, taken>>

Unlock(o) ==
    /\ own[o].pc = "held"
    /\ own' = [own EXCEPT ![o].pc = "release"]
    /\ UNCHANGED <<lockMap, connected, check, left, taken>>

Release(o, s) ==
    /\ own[o].pc = "release" /\ s \in own[o].todo
    /\ LET told == [own[o] EXCEPT !.todo = @ \ {s}] IN
       Call(o, s, UnlockOrRUnlock(lockMap[s], o), told, told)
    /\ UNCHANGED <<check, taken>>

Released(o) ==
    /\ own[o].pc = "release" /\ own[o].todo = {}
    /\ own' = [own EXCEPT ![o].pc = "idle", ![o].got = {}]
    /\ taken' = [taken EXCEPT ![o] = "nobody"]
    /\ UNCHANGED <<lockMap, connected, check, left>>

-----------------------------------------------------------------------------
(* History: an entry of an owner that is asking for or holds the lock is   *)
(* about to disappear from s.                                              *)
TakenFrom(s, os, by) ==
    [o \in Owners |-> IF o \in os /\ own[o].pc \in {"ask", "held"} /\ Holds(lockMap[s], o)
                       THEN by ELSE taken[o]]

(* lockMaintenance: a server takes an entry older than the check interval  *)
(* and asks every other server that is online whether it knows the UID;    *)
(* each one that does not has the entry removed.                           *)

CheckBegin(s) ==
    /\ check[s] = NoCheck /\ left.checks > 0
    /\ left' = [left EXCEPT !.checks = @ - 1]
    /\ \E i \in DOMAIN lockMap[s] :
        check' = [check EXCEPT ![s] = [uid |-> {lockMap[s][i].uid}, todo |-> Servers \ {s}]]
    /\ UNCHANGED <<lockMap, connected, own, taken>>

CheckOne(s, t) ==
    /\ t \in check[s].todo
    /\ \E o \in check[s].uid :
        \/ /\ Expired(lockMap[t], o)
           /\ lockMap' = [lockMap EXCEPT ![s] = removeEntry(@, o)]
           /\ taken' = TakenFrom(s, {o}, "maintenance")
        \/ UNCHANGED <<lockMap, taken>>    \* known there, offline or the call failed
    /\ check' = [check EXCEPT ![s] = IF @.todo = {t} THEN NoCheck
                                     ELSE [@ EXCEPT !.todo = @ \ {t}]]
    /\ UNCHANGED <<connected, own, left>>

(* A server's process stops and starts again with an empty table.          *)
Restart(s) ==
    /\ left.restarts > 0
    /\ left' = [left EXCEPT !.restarts = @ - 1]
    /\ lockMap' = [lockMap EXCEPT ![s] = <<>>]
    /\ check' = [check EXCEPT ![s] = NoCheck]
    /\ own' = [o \in Owners |-> IF Home[o] = s THEN [own[o] EXCEPT !.pc = "dead", !.todo = {}, !.got = {}]
                                ELSE own[o]]
    /\ taken' = TakenFrom(s, Owners, "restart")
    /\ UNCHANGED connected

-----------------------------------------------------------------------------
Init ==
    /\ lockMap = [s \in Servers |-> <<>>]
    /\ connected = [o \in Owners |-> [s \in Servers |-> TRUE]]
    /\ own = [o \in Owners |-> [pc |-> "idle", todo |-> {}, got |-> {}]]
    /\ check = [s \in Servers |-> NoCheck]
    /\ left \in Worlds
    /\ taken = [o \in Owners |-> "nobody"]

Next ==
    \/ \E o \in Owners :
        \/ Begin(o) \/ Decide(o) \/ Unlock(o) \/ Released(o)
        \/ \E s \in Servers : Ask(o, s) \/ Release(o, s) \/ Reconnect(o, s)
    \/ \E s \in Servers :
        \/ CheckBegin(s) \/ Restart(s)
        \/ \E t \in Servers : CheckOne(s, t)

Spec == Init /\ [][Next]_vars

-----------------------------------------------------------------------------
(* Properties *)

(* A lock table holds one write lock or read locks only, whatever the      *)
(* order in which calls, retries of calls whose answer was lost and the    *)
(* removals of the maintenance reach it.                                   *)
OneWriterOrReaders ==
    \A s \in Servers :
        LET t == lockMap[s]
        IN  (\E i \in DOMAIN t : t[i].writer) => Len(t) = 1

Conflict(o, p) == o # p /\ (Writer[o] \/ Writer[p])

(* Two owners with conflicting locks never hold them at the same time, in  *)
(* spite of lost calls and answers, unless a restart or the maintenance    *)
(* took the entry of one of them from a server.                            *)
Exclusion ==
    \A o, p \in Owners :
        Conflict(o, p) /\ own[o].pc = "held" /\ own[p].pc = "held" => taken[o] # "nobody" \/ taken[p] # "nobody"
=============================================================================
