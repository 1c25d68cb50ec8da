----------------------------- MODULE HostAccess -----------------------------
(***************************************************************************)
(* What the server knows of a host, and how connections change it: the row *)
(* of hosts (address, credentials, host key, status), written by Update,   *)
(* TestConnect, every request that dials (LoadAuth, Dial, RecordHostKey)   *)
(* and the metrics of the dashboard, with their 30-second cache            *)
(* (HostService, internal/pkg/ssh).                                        *)
(*                                                                         *)
(* A first connection trusts the key it is shown and records it; later     *)
(* ones accept no other.  Every request works on the row it read, and the  *)
(* row may have been saved since.                                          *)
(***************************************************************************)
EXTENDS Naturals, FiniteSets

CONSTANTS
    Hosts,
    Who,         \* requests: each has at most one call per host at a time
    Concurrency, \* hostMetricsConcurrency: samples at a time of one Metrics
    MaxCalls,    \* bound on the calls
    MaxFaults,   \* bound on the connections, reads and writes that fail for no reason of ours
    MaxRekeys    \* bound on the hosts set up anew

ASSUME HostAccessAssumption ==
    /\ IsFiniteSet(Hosts)
    /\ Concurrency \in Nat \ {0}
    /\ MaxCalls \in Nat /\ MaxFaults \in Nat /\ MaxRekeys \in Nat

Addrs == {1, 2}
NoKey == <<0, 0>>
Keys == Addrs \X (0..MaxRekeys)

VARIABLES
    row,      \* database, each host: address, whether its credentials work, host_key, status
    cache,    \* memory, each host: the status in its metrics view, "none" without one
    serves,   \* the key that answers at each address of a host
    call,     \* each request and host: the call, with the row it read
    left,     \* viewers that have left: the context of their Metrics is done
    failed,   \* history: hosts to which a connection, or the read of their credentials, has failed
    tainted,  \* history: hosts whose key may be of another address or time
    calls, faults, rekeys

rowVars == <<row, failed, tainted>>
bounds == <<calls, faults, rekeys>>
vars == <<rowVars, cache, serves, call, left, bounds>>

Row == [addr : Addrs, works : BOOLEAN, key : Keys \cup {NoKey},
        status : {"unknown", "online", "offline"}]
NoCall == [op |-> "none", pc |-> "none", known |-> NoKey, addr |-> 1, works |-> FALSE,
           status |-> "unknown", key |-> NoKey, old |-> FALSE]

\* Create: status unknown, no key; the credentials may be wrong.
Init ==
    /\ row \in [Hosts -> {[addr |-> 1, works |-> w, key |-> NoKey, status |-> "unknown"] :
                              w \in BOOLEAN}]
    /\ cache = [h \in Hosts |-> "none"]
    /\ serves = [h \in Hosts |-> [a \in Addrs |-> <<a, 0>>]]
    /\ call = [w \in Who |-> [h \in Hosts |-> NoCall]]
    /\ left = {}
    /\ failed = {} /\ tainted = {}
    /\ calls = 0 /\ faults = 0 /\ rekeys = 0

-----------------------------------------------------------------------------
(* Rows, and calls that have read them.                                      *)

At(w, h, op, pc) == call[w][h].op = op /\ call[w][h].pc = pc
End(w, h) == call' = [call EXCEPT ![w][h] = NoCall]

\* findByID, or the LoadAuth of a request that dials.
Read(w, h, op, pc) ==
    [op |-> op, pc |-> pc, known |-> row[h].key, addr |-> row[h].addr, works |-> row[h].works,
     status |-> IF op = "update" THEN row[h].status ELSE "unknown",
     key |-> NoKey, old |-> FALSE]

\* What the calls S of a host have read or learned is of another address or time.
Outdated(S) ==
    [w \in Who |-> [h \in Hosts |->
        IF <<w, h>> \in S /\ call[w][h].op # "none" THEN [call[w][h] EXCEPT !.old = TRUE]
        ELSE call[w][h]]]

Idle(w, h) == calls < MaxCalls /\ call[w][h].op = "none" /\ calls' = calls + 1

-----------------------------------------------------------------------------
(* Connections.                                                              *)

\* tofuCallback: any key on a first connection, then only the known one.
Accepts(known, shown) == known = NoKey \/ known = shown

\* A request that dials: DockerContainers, DockerLogs, RuntimeLogs, SyncRuntimeByApp,
\* StopRuntime, RestartRuntime or a deployment; or TestConnect.  One whose read of the row or
\* of the credentials fails says so and has changed nothing: it is as if it had not begun.
Connect(w, h, op) ==
    /\ op \in {"dial", "test"}
    /\ Idle(w, h)
    /\ call' = [call EXCEPT ![w][h] = Read(w, h, op, "dial")]
    /\ UNCHANGED <<rowVars, cache, serves, left, faults, rekeys>>

\* Dial; its timeout is its own, whoever has left.  (The commands of a request that only
\* dials change nothing here.)
DialNeedsTheViewer(w, h) == call[w][h].op # "metrics" \/ w \notin left
DialGoesThrough(w, h) == TRUE

Dialled(w, h) ==
    LET c == call[w][h]
        shown == serves[h][c.addr]
    IN  /\ c.pc = "dial" /\ c.works /\ Accepts(c.known, shown) /\ DialGoesThrough(w, h)
        /\ call' = [call EXCEPT ![w][h] =
               IF c.op # "test" /\ c.known = NoKey THEN [c EXCEPT !.pc = "record", !.key = shown]
               ELSE IF c.op = "dial" THEN NoCall
               ELSE [c EXCEPT !.pc = "online", !.key = IF c.known = NoKey THEN shown ELSE NoKey]]
        /\ UNCHANGED <<rowVars, cache, serves, left, bounds>>

\* The host cannot be reached, shows another key or refuses the credentials.  A metrics
\* sample and a test then say offline; other requests give up.
DialFails(w, h) ==
    LET c == call[w][h]
        refused == ~c.works \/ ~Accepts(c.known, serves[h][c.addr])
    IN  /\ c.pc = "dial"
        /\ \/ faults < MaxFaults /\ faults' = faults + 1 /\ failed' = failed \cup {h}
           \/ /\ refused \/ ~DialGoesThrough(w, h)
              /\ failed' = IF refused THEN failed \cup {h} ELSE failed
              /\ UNCHANGED faults
        /\ call' = [call EXCEPT ![w][h] = IF c.op = "dial" THEN NoCall
                                          ELSE [@ EXCEPT !.pc = "offline"]]
        /\ UNCHANGED <<row, tainted, cache, serves, left, calls, rekeys>>

\* RecordHostKey writes only where there is no key.
MayAlwaysRecord(h) == TRUE
MayRecord(h) == row[h].key = NoKey

RecordHostKey(w, h) ==
    LET c == call[w][h]
    IN  /\ c.pc = "record"
        /\ row' = IF MayRecord(h) THEN [row EXCEPT ![h].key = c.key] ELSE row
        /\ tainted' = IF MayRecord(h) /\ c.old THEN tainted \cup {h} ELSE tainted
        /\ call' = [call EXCEPT ![w][h] = IF c.op = "dial" THEN NoCall
                                          ELSE [@ EXCEPT !.pc = "online"]]
        /\ UNCHANGED <<cache, serves, left, failed, bounds>>

-----------------------------------------------------------------------------
(* TestConnect.                                                              *)

PingFails(w, h) ==
    /\ At(w, h, "test", "online")
    /\ faults < MaxFaults /\ faults' = faults + 1
    /\ failed' = failed \cup {h}
    /\ call' = [call EXCEPT ![w][h].pc = "offline"]
    /\ UNCHANGED <<row, tainted, cache, serves, left, calls, rekeys>>

\* One write of the status, and of the key when there was none to begin with.
TestEnds(w, h) ==
    LET c == call[w][h]
        learned == c.pc = "online" /\ c.known = NoKey
    IN  /\ c.op = "test" /\ c.pc \in {"online", "offline"}
        /\ row' = [row EXCEPT ![h].status = c.pc, ![h].key = IF learned THEN c.key ELSE @]
        /\ tainted' = IF learned /\ c.old THEN tainted \cup {h} ELSE tainted
        /\ End(w, h)
        /\ UNCHANGED <<cache, serves, left, failed, bounds>>

-----------------------------------------------------------------------------
(* Metrics: a sample of each host that the cache does not have.              *)

\* One Metrics asks for each host that has no view in the cache.
Ask(w, h) ==
    /\ Idle(w, h) /\ cache[h] = "none"
    /\ call' = [call EXCEPT ![w][h] = [NoCall EXCEPT !.op = "metrics", !.pc = "slot"]]
    /\ UNCHANGED <<rowVars, cache, serves, left, faults, rekeys>>

Sampling(w) == {h \in Hosts : call[w][h].op = "metrics" /\ call[w][h].pc # "slot"}
AlwaysASlot(w) == TRUE
HasSlot(w) == Cardinality(Sampling(w)) < Concurrency

TakeSlot(w, h) ==
    /\ At(w, h, "metrics", "slot")
    /\ HasSlot(w)
    /\ call' = [call EXCEPT ![w][h] = Read(w, h, "metrics", "dial")]
    /\ UNCHANGED <<rowVars, cache, serves, left, bounds>>

\* LoadAuth fails in the database, for a row deleted meanwhile or in the decryption: nothing
\* is dialled, and the sample says offline as for a connection that fails.
AuthFails(w, h) ==
    /\ At(w, h, "metrics", "slot")
    /\ HasSlot(w)
    /\ faults < MaxFaults /\ faults' = faults + 1
    /\ failed' = failed \cup {h}
    /\ call' = [call EXCEPT ![w][h] = Read(w, h, "metrics", "offline")]
    /\ UNCHANGED <<row, tainted, cache, serves, left, calls, rekeys>>

\* Without a slot the view of one who has left says what the row did.
LeaveSlot(w, h) ==
    /\ At(w, h, "metrics", "slot") /\ w \in left
    /\ End(w, h)
    /\ UNCHANGED <<rowVars, cache, serves, left, bounds>>

\* updateHostStatus, after hostMetricsCommand: whatever it prints, an error of it or the
\* end of the context, the host is online.
SaveStatus(w, h) ==
    LET c == call[w][h]
    IN  /\ c.op = "metrics" /\ c.pc \in {"online", "offline"}
        /\ row' = [row EXCEPT ![h].status = c.pc]
        /\ call' = [call EXCEPT ![w][h].pc = "cache", ![w][h].status = c.pc]
        /\ UNCHANGED <<failed, tainted, cache, serves, left, bounds>>

CacheMetrics(w, h) ==
    /\ At(w, h, "metrics", "cache")
    /\ cache' = [cache EXCEPT ![h] = call[w][h].status]
    /\ End(w, h)
    /\ UNCHANGED <<rowVars, serves, left, bounds>>

\* The write of a status or a key fails, which is ignored, or the save of an Update, which
\* ends in an error.
WriteFails(w, h) ==
    LET c == call[w][h]
    IN  /\ faults < MaxFaults /\ faults' = faults + 1
        /\ \/ c.op # "metrics" /\ c.pc \in {"record", "online", "offline", "save"} /\ End(w, h)
           \/ /\ At(w, h, "metrics", "record")
              /\ call' = [call EXCEPT ![w][h].pc = "online"]
           \/ /\ c.op = "metrics" /\ c.pc \in {"online", "offline"}
              /\ call' = [call EXCEPT ![w][h].pc = "cache", ![w][h].status = c.pc]
        /\ UNCHANGED <<rowVars, cache, serves, left, calls, rekeys>>

\* hostMetricsCacheTTL has passed.
Expire(h) ==
    /\ cache[h] # "none" /\ cache' = [cache EXCEPT ![h] = "none"]
    /\ UNCHANGED <<rowVars, serves, call, left, bounds>>

-----------------------------------------------------------------------------
(* Update: reads the row and saves all of it, with the new address and, when *)
(* they are given, new credentials, which take the host key away.            *)

UpdateReads(w, h) ==
    /\ Idle(w, h)
    /\ call' = [call EXCEPT ![w][h] = Read(w, h, "update", "save")]
    /\ UNCHANGED <<rowVars, cache, serves, left, faults, rekeys>>

KeyStays(newSecret, key) == key
KeyAfter(newSecret, key) == IF newSecret THEN NoKey ELSE key

UpdateSaves(w, h, a, newSecret) ==
    LET c == call[w][h]
    IN  /\ At(w, h, "update", "save")
        /\ \E works \in BOOLEAN :  \* user name and kind of credentials may change as well
             row' = [row EXCEPT ![h] = [addr |-> a, works |-> works,
                        key |-> KeyAfter(newSecret, c.known), status |-> c.status]]
        /\ tainted' = IF newSecret THEN tainted \ {h}
                      ELSE IF c.old \/ a # c.addr THEN tainted \cup {h} ELSE tainted
        /\ call' = [(IF newSecret \/ a # row[h].addr THEN Outdated(Who \X {h}) ELSE call)
                       EXCEPT ![w][h] = NoCall]
        /\ UNCHANGED <<cache, serves, left, failed, bounds>>

-----------------------------------------------------------------------------
(* Around the server.                                                        *)

\* The host is set up anew and answers with another key.
Rekey(h) ==
    /\ rekeys < MaxRekeys /\ rekeys' = rekeys + 1
    /\ serves' = [serves EXCEPT ![h][row[h].addr] = <<row[h].addr, rekeys'>>]
    /\ tainted' = IF row[h].key = NoKey THEN tainted ELSE tainted \cup {h}
    /\ call' = Outdated({<<w, h>> : w \in {v \in Who : call[v][h].key # NoKey \/ call[v][h].op = "update"}})
    /\ UNCHANGED <<row, failed, cache, left, calls, faults>>

\* A viewer leaves, and comes back when the request has ended.
Leave(w) ==
    /\ w \notin left /\ \E h \in Hosts : call[w][h].op = "metrics"
    /\ left' = left \cup {w}
    /\ UNCHANGED <<rowVars, cache, serves, call, bounds>>

Return(w) ==
    /\ w \in left /\ \A h \in Hosts : call[w][h].op # "metrics"
    /\ left' = left \ {w}
    /\ UNCHANGED <<rowVars, cache, serves, call, bounds>>

Next ==
    \/ \E w \in Who, h \in Hosts :
        \/ Connect(w, h, "dial") \/ Connect(w, h, "test")
        \/ Dialled(w, h) \/ DialFails(w, h) \/ RecordHostKey(w, h)
        \/ PingFails(w, h) \/ TestEnds(w, h)
        \/ Ask(w, h) \/ TakeSlot(w, h) \/ AuthFails(w, h) \/ LeaveSlot(w, h)
        \/ SaveStatus(w, h) \/ CacheMetrics(w, h) \/ WriteFails(w, h)
        \/ UpdateReads(w, h)
        \/ \E a \in Addrs, newSecret \in BOOLEAN : UpdateSaves(w, h, a, newSecret)
    \/ \E h \in Hosts : Expire(h) \/ Rekey(h)
    \/ \E w \in Who : Leave(w) \/ Return(w)

Spec == Init /\ [][Next]_vars

-----------------------------------------------------------------------------
(* Properties.                                                               *)

(* Types; one Metrics has no more samples at work than it may.              *)
TypeOK ==
    /\ row \in [Hosts -> Row]
    /\ \A h \in Hosts :
        /\ cache[h] \in {"none", "online", "offline"}
        /\ \A a \in Addrs : serves[h][a] \in Keys
    /\ \A w \in Who : Cardinality(Sampling(w)) <= Concurrency
    /\ left \subseteq Who /\ failed \subseteq Hosts /\ tainted \subseteq Hosts

(* The recorded key is the one the host at the recorded address has, unless *)
(* the host was set up anew, the address was changed without giving new     *)
(* credentials, or a request that began before such a change wrote what it  *)
(* had read or learned.                                                     *)
KnownKeyIsTheHosts ==
    \A h \in Hosts \ tainted :
        row[h].key # NoKey => row[h].key = serves[h][row[h].addr]

(* A recorded key is taken away or replaced by nothing but the save of an   *)
(* Update, or a TestConnect that began when there was none: of two first    *)
(* connections the first to record decides, whatever key the other saw.     *)
KeysAreKept ==
    [][\A h \in Hosts : row[h].key # NoKey /\ row'[h].key # row[h].key =>
          \E w \in Who :
            /\ call[w][h].op # "none" /\ call'[w][h].op = "none"
            /\ \/ call[w][h].op = "update"
               \/ call[w][h].op = "test" /\ call[w][h].known = NoKey]_vars

(* A host is shown as offline only after a connection to it, or the read of *)
(* its credentials, has failed: a viewer who leaves in the middle of a      *)
(* sample does not make it so.                                              *)
OfflineMeansAFailure ==
    \A h \in Hosts :
        row[h].status = "offline" \/ cache[h] = "offline" => h \in failed
=============================================================================
