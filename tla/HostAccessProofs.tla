--------------------------- MODULE HostAccessProofs ---------------------------
(***************************************************************************)
(* Proofs about HostAccess for any number of hosts, requests, calls,       *)
(* failures and hosts set up anew.  The inductive invariant IInv adds to   *)
(* the properties what a call still knows of its host: nearly every step   *)
(* moves one call and may write one row, which CallStep treats once.       *)
(***************************************************************************)
EXTENDS HostAccess, FiniteSetTheorems, TLAPS

\* The fields of a call.
Ops == {"none", "dial", "test", "metrics", "update"}
Pcs == {"none", "slot", "dial", "record", "online", "offline", "cache", "save"}
CallRecords ==
    [op : Ops, pc : Pcs, known : Keys \cup {NoKey}, addr : Addrs, works : BOOLEAN,
     status : {"unknown", "online", "offline"}, key : Keys \cup {NoKey}, old : BOOLEAN]
CacheStates == {"none", "online", "offline"}

\* The types that TypeOK leaves out.
Typed ==
    /\ cache \in [Hosts -> CacheStates]
    /\ serves \in [Hosts -> [Addrs -> Keys]]
    /\ call \in [Who -> [Hosts -> CallRecords]]
    /\ rekeys \in 0..MaxRekeys

\* What a call that nothing has overtaken knows of its host is still so: the address it
\* dialled, the key it was shown there, and for an update the recorded key it read, unless
\* that was no longer the host's.
Current(c, addr, key) == c.addr = addr /\ (c.key # NoKey => c.key = key)
Trusts(c, key) == c.op = "update" /\ c.known # NoKey => c.known = key
CallsKnow ==
    \A w \in Who, h \in Hosts :
        LET c == call[w][h]
        IN  c.op # "none" /\ c.pc # "slot" /\ ~c.old =>
               /\ Current(c, row[h].addr, serves[h][row[h].addr])
               /\ h \notin tainted => Trusts(c, serves[h][row[h].addr])

\* A call is about to report a host as offline only after a connection, or the read of its
\* credentials, has failed; and it has something to report when it comes to the cache.
CallsReport ==
    \A w \in Who, h \in Hosts :
        /\ call[w][h].op = "none" => call[w][h].pc = "none"
        /\ call[w][h].pc = "offline" \/ call[w][h].status = "offline" => h \in failed
        /\ call[w][h].pc = "cache" => call[w][h].status # "unknown"

IInv ==
    /\ TypeOK
    /\ Typed
    /\ CallsKnow
    /\ CallsReport
    /\ KnownKeyIsTheHosts
    /\ OfflineMeansAFailure

-----------------------------------------------------------------------------
(* Calls and rows                                                           *)

\* Changing the fields of a call changes those fields.
LEMMA WithPc ==
    ASSUME NEW c \in CallRecords, NEW p \in Pcs
    PROVE  LET d == [c EXCEPT !.pc = p]
           IN  /\ d \in CallRecords /\ d.pc = p /\ d.op = c.op /\ d.known = c.known
               /\ d.addr = c.addr /\ d.status = c.status /\ d.key = c.key /\ d.old = c.old
BY DEF CallRecords

\* So does changing the status with it.
LEMMA WithStatus ==
    ASSUME NEW c \in CallRecords, NEW p \in Pcs, NEW s \in {"unknown", "online", "offline"}
    PROVE  LET d == [c EXCEPT !.pc = p, !.status = s]
           IN  /\ d \in CallRecords /\ d.pc = p /\ d.op = c.op /\ d.known = c.known
               /\ d.addr = c.addr /\ d.status = s /\ d.key = c.key /\ d.old = c.old
BY DEF CallRecords

\* A call that is overtaken is otherwise as it was.
LEMMA Overtaken ==
    ASSUME NEW c \in CallRecords
    PROVE  LET d == [c EXCEPT !.old = TRUE]
           IN  /\ d \in CallRecords /\ d.pc = c.pc /\ d.op = c.op /\ d.known = c.known
               /\ d.addr = c.addr /\ d.status = c.status /\ d.key = c.key /\ d.old
BY DEF CallRecords

\* A request without a call, and a sample that waits for its slot.
LEMMA NoCallFields ==
    /\ NoCall \in CallRecords /\ NoCall.op = "none" /\ NoCall.pc = "none"
    /\ NoCall.status = "unknown" /\ NoCall.key = NoKey
    /\ LET d == [NoCall EXCEPT !.op = "metrics", !.pc = "slot"]
       IN  d \in CallRecords /\ d.op = "metrics" /\ d.pc = "slot" /\ d.status = "unknown"
<1>1. NoCall \in CallRecords
  BY DEF NoCall, CallRecords, Ops, Pcs, Addrs
<1>2. [NoCall EXCEPT !.op = "metrics", !.pc = "slot"] \in CallRecords
  BY <1>1 DEF CallRecords, Ops, Pcs
<1> QED BY <1>1, <1>2 DEF NoCall

\* A call that begins has read the row.
LEMMA ReadFields ==
    ASSUME NEW h \in Hosts, row \in [Hosts -> Row], NEW op \in Ops, NEW p \in Pcs, NEW w \in Who
    PROVE  LET d == Read(w, h, op, p)
           IN  /\ d \in CallRecords /\ d.op = op /\ d.pc = p
               /\ d.known = row[h].key /\ d.addr = row[h].addr /\ d.key = NoKey
               /\ d.status \in {"unknown", row[h].status}
<1>1. row[h] \in Row
  OBVIOUS
<1>2. Read(w, h, op, p) \in CallRecords
  BY <1>1 DEF Read, Row, CallRecords
<1> QED BY <1>2 DEF Read

\* What a step of the call of w to h, which may write the row of h, does and must see to.
Moves(w, h, new, r) ==
    /\ new \in CallRecords /\ r \in Row
    /\ call' = [call EXCEPT ![w][h] = new]
    /\ row' = [row EXCEPT ![h] = r]
    /\ r.addr = row[h].addr
    /\ serves' = serves /\ left' = left /\ rekeys' = rekeys
    /\ failed' = failed \/ failed' = failed \cup {h}
    /\ tainted' = tainted \/ tainted' = tainted \cup {h}
    /\ cache' \in [Hosts -> CacheStates]
    /\ cache'[h] = "offline" => h \in failed'
    /\ \A g \in Hosts : g # h => cache'[g] = cache[g]
    /\ r.status = "offline" => h \in failed'
    /\ h \notin tainted' /\ r.key # NoKey => r.key = serves[h][r.addr]
    /\ new.op = "none" => new.pc = "none"
    /\ new.pc = "offline" \/ new.status = "offline" => h \in failed'
    /\ new.pc = "cache" => new.status # "unknown"
    /\ new.op # "none" /\ new.pc # "slot" /\ ~new.old =>
          /\ Current(new, row[h].addr, serves[h][row[h].addr])
          /\ h \notin tainted' => Trusts(new, serves[h][row[h].addr])
    /\ new.op = "metrics" /\ new.pc # "slot" => h \in Sampling(w) \/ HasSlot(w)

\* A step of one call that moves as Moves says keeps the invariant.
LEMMA CallStep ==
    ASSUME IInv, NEW w \in Who, NEW h \in Hosts, NEW new, NEW r, Moves(w, h, new, r)
    PROVE  IInv'
<1> USE DEF IInv, Moves
<1>1. /\ row' \in [Hosts -> Row] /\ row'[h] = r
      /\ \A g \in Hosts : g # h => row'[g] = row[g]
      /\ \A g \in Hosts : row'[g].addr = row[g].addr
  BY DEF TypeOK
<1>2. /\ call' \in [Who -> [Hosts -> CallRecords]] /\ call'[w][h] = new
      /\ \A v \in Who, g \in Hosts : <<v, g>> # <<w, h>> => call'[v][g] = call[v][g]
  BY DEF Typed
<1>3. /\ failed' \subseteq Hosts /\ failed \subseteq failed'
      /\ tainted' \subseteq Hosts /\ tainted \subseteq tainted'
      /\ \A g \in Hosts : g # h => (g \in tainted' <=> g \in tainted)
  BY DEF TypeOK
<1>4. Typed'
  BY <1>2 DEF Typed
<1>5. ASSUME NEW v \in Who PROVE Cardinality(Sampling(v)') <= Concurrency
  <2>1. /\ IsFiniteSet(Sampling(v)) /\ Cardinality(Sampling(v)) \in Nat
        /\ Cardinality(Sampling(v)) <= Concurrency /\ Concurrency \in Nat
    <3>1. Sampling(v) \subseteq Hosts
      BY DEF Sampling
    <3>2. IsFiniteSet(Sampling(v))
      BY <3>1, HostAccessAssumption, FS_Subset
    <3> QED BY <3>2, FS_CardinalityType, HostAccessAssumption DEF TypeOK
  <2>2. CASE Sampling(v)' \subseteq Sampling(v)
    <3>1. Cardinality(Sampling(v)') <= Cardinality(Sampling(v)) /\ Cardinality(Sampling(v)') \in Nat
      BY <2>1, <2>2, FS_Subset, FS_CardinalityType
    <3> QED BY <2>1, <3>1
  <2>3. CASE ~(Sampling(v)' \subseteq Sampling(v))
    <3>1. PICK g \in Sampling(v)' : g \notin Sampling(v)
      BY <2>3
    <3>2. g \in Hosts /\ call'[v][g].op = "metrics" /\ call'[v][g].pc # "slot"
      BY <3>1 DEF Sampling
    <3>3. v = w /\ g = h
      BY <1>2, <3>1, <3>2 DEF Sampling
    <3>4. HasSlot(w)
      BY <1>2, <3>1, <3>2, <3>3
    <3>5. \A x \in Sampling(v)' : x \in Sampling(v) \/ x = h
      BY <1>2, <3>3 DEF Sampling
    <3>6. /\ IsFiniteSet(Sampling(v) \cup {h})
          /\ Cardinality(Sampling(v) \cup {h}) = Cardinality(Sampling(v)) + 1
      BY <2>1, <3>1, <3>3, FS_AddElement
    <3>7. /\ Cardinality(Sampling(v)') <= Cardinality(Sampling(v)) + 1
          /\ Cardinality(Sampling(v)') \in Nat
      BY <3>5, <3>6, FS_Subset, FS_CardinalityType
    <3> QED BY <2>1, <3>3, <3>4, <3>7 DEF HasSlot
  <2> QED BY <2>2, <2>3
<1>6. TypeOK'
  BY <1>1, <1>3, <1>4, <1>5 DEF TypeOK, Typed, CacheStates
<1>7. CallsKnow'
  <2>1. ASSUME NEW v \in Who, NEW g \in Hosts,
               call'[v][g].op # "none", call'[v][g].pc # "slot", ~call'[v][g].old
        PROVE  /\ Current(call'[v][g], row'[g].addr, serves[g][row'[g].addr])
               /\ g \notin tainted' => Trusts(call'[v][g], serves[g][row'[g].addr])
    <3>1. CASE v = w /\ g = h
      BY <1>1, <1>2, <2>1, <3>1
    <3>2. CASE ~(v = w /\ g = h)
      <4>1. call'[v][g] = call[v][g]
        BY <1>2, <3>2
      <4>2. /\ Current(call[v][g], row[g].addr, serves[g][row[g].addr])
            /\ g \notin tainted => Trusts(call[v][g], serves[g][row[g].addr])
        BY <2>1, <4>1 DEF CallsKnow
      <4>3. g \notin tainted' => g \notin tainted
        BY <1>3
      <4> QED BY <1>1, <4>1, <4>2, <4>3
    <3> QED BY <3>1, <3>2
  <2> QED BY <2>1 DEF CallsKnow
<1>8. CallsReport'
  BY <1>2, <1>3 DEF CallsReport
<1>9. KnownKeyIsTheHosts'
  BY <1>1, <1>3 DEF KnownKeyIsTheHosts
<1>10. OfflineMeansAFailure'
  BY <1>1, <1>3 DEF OfflineMeansAFailure
<1> QED BY <1>4, <1>6, <1>7, <1>8, <1>9, <1>10

\* Changing the fields of a row changes those fields.
LEMMA RowFields ==
    ASSUME NEW r \in Row, NEW k \in Keys \cup {NoKey}, NEW s \in {"unknown", "online", "offline"}
    PROVE  /\ [r EXCEPT !.key = k] \in Row /\ [r EXCEPT !.key = k].key = k
           /\ [r EXCEPT !.key = k].addr = r.addr /\ [r EXCEPT !.key = k].status = r.status
           /\ [r EXCEPT !.status = s] \in Row /\ [r EXCEPT !.status = s].status = s
           /\ [r EXCEPT !.status = s].addr = r.addr /\ [r EXCEPT !.status = s].key = r.key
           /\ [r EXCEPT !.status = s, !.key = k] \in Row
           /\ [r EXCEPT !.status = s, !.key = k].status = s
           /\ [r EXCEPT !.status = s, !.key = k].addr = r.addr
           /\ [r EXCEPT !.status = s, !.key = k].key = k
BY DEF Row

\* The same for a step that writes no row and no cache.
JustMoves(w, h, new) ==
    /\ new \in CallRecords
    /\ call' = [call EXCEPT ![w][h] = new]
    /\ UNCHANGED <<row, tainted, cache, serves, left, rekeys>>
    /\ failed' = failed \/ failed' = failed \cup {h}
    /\ new.op = "none" => new.pc = "none"
    /\ new.pc = "offline" \/ new.status = "offline" => h \in failed'
    /\ new.pc = "cache" => new.status # "unknown"
    /\ new.op # "none" /\ new.pc # "slot" /\ ~new.old =>
          /\ Current(new, row[h].addr, serves[h][row[h].addr])
          /\ h \notin tainted => Trusts(new, serves[h][row[h].addr])
    /\ new.op = "metrics" /\ new.pc # "slot" => h \in Sampling(w) \/ HasSlot(w)

\* It keeps the invariant by CallStep, with the row it leaves alone.
LEMMA CallMoves ==
    ASSUME IInv, NEW w \in Who, NEW h \in Hosts, NEW new, JustMoves(w, h, new)
    PROVE  IInv'
<1>1. row[h] \in Row /\ row' = [row EXCEPT ![h] = row[h]]
  BY DEF IInv, TypeOK, JustMoves
<1>2. /\ cache' \in [Hosts -> CacheStates]
      /\ cache'[h] = "offline" => h \in failed'
      /\ row[h].status = "offline" => h \in failed'
      /\ h \notin tainted' /\ row[h].key # NoKey => row[h].key = serves[h][row[h].addr]
  BY DEF IInv, Typed, OfflineMeansAFailure, KnownKeyIsTheHosts, JustMoves
<1>3. Moves(w, h, new, row[h])
  BY <1>1, <1>2 DEF Moves, JustMoves
<1> QED BY <1>3, CallStep

\* What is known of a call at work.
LEMMA AtWork ==
    ASSUME IInv, NEW w \in Who, NEW h \in Hosts, NEW c, c = call[w][h]
    PROVE  /\ c \in CallRecords
           /\ c.op = "none" => c.pc = "none"
           /\ c.pc = "offline" \/ c.status = "offline" => h \in failed
           /\ c.pc = "cache" => c.status # "unknown"
           /\ c.op # "none" /\ c.pc # "slot" /\ ~c.old =>
                 /\ Current(c, row[h].addr, serves[h][row[h].addr])
                 /\ h \notin tainted => Trusts(c, serves[h][row[h].addr])
           /\ c.op = "metrics" /\ c.pc # "slot" => h \in Sampling(w)
           /\ row[h] \in Row /\ row \in [Hosts -> Row]
           /\ serves[h][c.addr] \in Keys
<1>1. c \in CallRecords
  BY DEF IInv, Typed
<1>2. /\ c.op = "none" => c.pc = "none"
      /\ c.pc = "offline" \/ c.status = "offline" => h \in failed
      /\ c.pc = "cache" => c.status # "unknown"
  BY DEF IInv, CallsReport
<1>3. c.op # "none" /\ c.pc # "slot" /\ ~c.old =>
         /\ Current(c, row[h].addr, serves[h][row[h].addr])
         /\ h \notin tainted => Trusts(c, serves[h][row[h].addr])
  BY DEF IInv, CallsKnow
<1>4. c.op = "metrics" /\ c.pc # "slot" => h \in Sampling(w)
  BY DEF Sampling
<1>5. row[h] \in Row /\ row \in [Hosts -> Row]
  BY DEF IInv, TypeOK
<1>6. serves[h][c.addr] \in Keys
  BY <1>1 DEF IInv, Typed, CallRecords
<1> QED BY <1>1, <1>2, <1>3, <1>4, <1>5, <1>6

-----------------------------------------------------------------------------
(* The steps                                                                *)

\* Calls that begin: a request that dials, a test, an update, a sample.
LEMMA Begins ==
    ASSUME IInv, NEW w \in Who, NEW h \in Hosts,
           \/ Connect(w, h, "dial") \/ Connect(w, h, "test")
           \/ Ask(w, h) \/ TakeSlot(w, h) \/ AuthFails(w, h) \/ LeaveSlot(w, h)
           \/ UpdateReads(w, h)
    PROVE  IInv'
<1>1. row \in [Hosts -> Row]
  BY DEF IInv, TypeOK
<1>2. ASSUME NEW op \in Ops \ {"none", "metrics"}, NEW p \in Pcs \ {"slot", "offline", "cache"},
             call' = [call EXCEPT ![w][h] = Read(w, h, op, p)],
             UNCHANGED <<row, failed, tainted, cache, serves, left, rekeys>>
      PROVE  IInv'
  <2>1. PICK new \in CallRecords : new = Read(w, h, op, p)
    BY <1>1, ReadFields
  <2>2. /\ new.op = op /\ new.pc = p /\ new.known = row[h].key /\ new.addr = row[h].addr
        /\ new.key = NoKey /\ new.status \in {"unknown", row[h].status}
    BY <1>1, <2>1, ReadFields
  <2>3. new.status = "offline" => h \in failed
    BY <2>2 DEF IInv, OfflineMeansAFailure
  <2>4. /\ Current(new, row[h].addr, serves[h][row[h].addr])
        /\ h \notin tainted => Trusts(new, serves[h][row[h].addr])
    BY <2>2 DEF Current, Trusts, IInv, KnownKeyIsTheHosts
  <2> QED BY <1>2, <2>1, <2>2, <2>3, <2>4, CallMoves DEF JustMoves
<1>3. CASE Connect(w, h, "dial")
  BY <1>2, <1>3 DEF Connect, rowVars, Ops, Pcs
<1>4. CASE Connect(w, h, "test")
  BY <1>2, <1>4 DEF Connect, rowVars, Ops, Pcs
<1>5. CASE UpdateReads(w, h)
  BY <1>2, <1>5 DEF UpdateReads, rowVars, Ops, Pcs
<1>6. CASE Ask(w, h)
  <2>1. PICK new \in CallRecords : /\ new = [NoCall EXCEPT !.op = "metrics", !.pc = "slot"]
                                   /\ new.op = "metrics" /\ new.pc = "slot"
                                   /\ new.status = "unknown"
    BY NoCallFields
  <2> QED BY <1>6, <2>1, CallMoves DEF JustMoves, Ask, rowVars
<1>7. CASE TakeSlot(w, h)
  <2>1. PICK new \in CallRecords : new = Read(w, h, "metrics", "dial")
    BY <1>1, ReadFields DEF Ops, Pcs
  <2>2. /\ new.op = "metrics" /\ new.pc = "dial" /\ new.addr = row[h].addr
        /\ new.key = NoKey /\ new.status = "unknown"
    BY <2>1 DEF Read
  <2>3. /\ Current(new, row[h].addr, serves[h][row[h].addr])
        /\ h \notin tainted => Trusts(new, serves[h][row[h].addr])
    BY <2>2 DEF Current, Trusts
  <2> QED BY <1>7, <2>1, <2>2, <2>3, CallMoves DEF JustMoves, TakeSlot, rowVars, bounds
<1>8. CASE LeaveSlot(w, h)
  <2>1. /\ NoCall \in CallRecords /\ NoCall.op = "none" /\ NoCall.pc = "none"
        /\ NoCall.status = "unknown"
    BY NoCallFields
  <2> QED BY <1>8, <2>1, CallMoves DEF JustMoves, LeaveSlot, End, rowVars, bounds
<1>9. CASE AuthFails(w, h)
  <2>1. PICK new \in CallRecords : new = Read(w, h, "metrics", "offline")
    BY <1>1, ReadFields DEF Ops, Pcs
  <2>2. /\ new.op = "metrics" /\ new.pc = "offline" /\ new.addr = row[h].addr
        /\ new.key = NoKey /\ new.status = "unknown"
    BY <2>1 DEF Read
  <2>3. /\ Current(new, row[h].addr, serves[h][row[h].addr])
        /\ h \notin tainted => Trusts(new, serves[h][row[h].addr])
    BY <2>2 DEF Current, Trusts
  <2> QED BY <1>9, <2>1, <2>2, <2>3, CallMoves DEF JustMoves, AuthFails
<1> QED BY <1>3, <1>4, <1>5, <1>6, <1>7, <1>8, <1>9

\* A request ends and has written nothing.
LEMMA EndsQuietly ==
    ASSUME IInv, NEW w \in Who, NEW h \in Hosts,
           call' = [call EXCEPT ![w][h] = NoCall],
           UNCHANGED <<row, tainted, cache, serves, left, rekeys>>,
           failed' = failed \/ failed' = failed \cup {h}
    PROVE  IInv'
<1>1. row \in [Hosts -> Row]
  BY DEF IInv, TypeOK
<1>2. /\ NoCall \in CallRecords /\ NoCall.op = "none" /\ NoCall.pc = "none"
      /\ NoCall.status = "unknown"
  BY NoCallFields
<1> QED BY <1>2, CallMoves DEF JustMoves

\* A connection that goes through has been shown the key of the address it dialled.
LEMMA DialledStep ==
    ASSUME IInv, NEW w \in Who, NEW h \in Hosts, Dialled(w, h)
    PROVE  IInv'
<1>1. PICK c \in CallRecords : c = call[w][h]
  BY AtWork
<1>2. PICK shown \in Keys : shown = serves[h][c.addr]
  BY <1>1, AtWork
<1>3. /\ c.pc = "dial" /\ c.op # "none" /\ UNCHANGED <<row, failed, tainted, cache, serves, left, rekeys>>
      /\ c.status = "offline" => h \in failed
      /\ ~c.old => /\ Current(c, row[h].addr, serves[h][row[h].addr])
                   /\ h \notin tainted => Trusts(c, serves[h][row[h].addr])
      /\ c.op = "metrics" => h \in Sampling(w)
  BY <1>1, AtWork DEF Dialled, rowVars, bounds
<1>4. ASSUME NEW p \in Pcs, p \notin {"slot", "offline", "cache"},
             NEW k \in Keys \cup {NoKey}, k # NoKey => k = shown,
             call' = [call EXCEPT ![w][h] = [c EXCEPT !.pc = p, !.key = k]]
      PROVE  IInv'
  <2>1. PICK new : new = [c EXCEPT !.pc = p, !.key = k]
    OBVIOUS
  <2>2. /\ new \in CallRecords /\ new.pc = p /\ new.key = k /\ new.op = c.op
        /\ new.known = c.known /\ new.addr = c.addr /\ new.status = c.status /\ new.old = c.old
    BY <2>1 DEF CallRecords
  <2>3. ~new.old => /\ Current(new, row[h].addr, serves[h][row[h].addr])
                    /\ h \notin tainted => Trusts(new, serves[h][row[h].addr])
    BY <1>2, <1>3, <1>4, <2>2 DEF Current, Trusts
  <2>4. call' = [call EXCEPT ![w][h] = new]
    BY <1>4, <2>1
  <2>5. JustMoves(w, h, new)
    BY <1>3, <1>4, <2>2, <2>3, <2>4 DEF JustMoves
  <2> QED BY <2>5, CallMoves
<1>5. \/ call' = [call EXCEPT ![w][h] = [c EXCEPT !.pc = "record", !.key = shown]]
      \/ call' = [call EXCEPT ![w][h] = NoCall]
      \/ call' = [call EXCEPT ![w][h] = [c EXCEPT !.pc = "online", !.key = shown]]
      \/ call' = [call EXCEPT ![w][h] = [c EXCEPT !.pc = "online", !.key = NoKey]]
  BY <1>1, <1>2 DEF Dialled
<1> QED BY <1>3, <1>4, <1>5, EndsQuietly DEF Pcs

\* A connection fails, and a sample or a test will say so.
LEMMA FailsStep ==
    ASSUME IInv, NEW w \in Who, NEW h \in Hosts, DialFails(w, h) \/ PingFails(w, h)
    PROVE  IInv'
<1>1. PICK c \in CallRecords : c = call[w][h]
  BY AtWork
<1>2. /\ c.pc \in {"dial", "online"} /\ c.op # "none"
      /\ ~c.old => /\ Current(c, row[h].addr, serves[h][row[h].addr])
                   /\ h \notin tainted => Trusts(c, serves[h][row[h].addr])
      /\ c.op = "metrics" => h \in Sampling(w)
      /\ c.status = "offline" => h \in failed
  <2>1. c.pc \in {"dial", "online"}
    BY <1>1 DEF DialFails, PingFails, At
  <2> QED BY <1>1, <2>1, AtWork
<1>3. /\ failed' = failed \cup {h}
      /\ UNCHANGED <<row, tainted, cache, serves, left, rekeys>>
  BY <1>1, AtWork DEF DialFails, PingFails, DialGoesThrough, IInv, TypeOK
<1>4. \/ call' = [call EXCEPT ![w][h] = NoCall]
      \/ call' = [call EXCEPT ![w][h] = [c EXCEPT !.pc = "offline"]]
  BY <1>1 DEF DialFails, PingFails
<1>5. CASE call' = [call EXCEPT ![w][h] = [c EXCEPT !.pc = "offline"]]
  <2>1. PICK new : new = [c EXCEPT !.pc = "offline"]
    OBVIOUS
  <2>2. /\ new \in CallRecords /\ new.pc = "offline" /\ new.key = c.key /\ new.op = c.op
        /\ new.known = c.known /\ new.addr = c.addr /\ new.status = c.status /\ new.old = c.old
    BY <2>1, WithPc DEF Pcs
  <2>3. ~new.old => /\ Current(new, row[h].addr, serves[h][row[h].addr])
                    /\ h \notin tainted => Trusts(new, serves[h][row[h].addr])
    BY <1>2, <2>2 DEF Current, Trusts
  <2>4. call' = [call EXCEPT ![w][h] = new]
    BY <1>5, <2>1
  <2>5. JustMoves(w, h, new)
    BY <1>2, <1>3, <2>2, <2>3, <2>4 DEF JustMoves
  <2> QED BY <2>5, CallMoves
<1> QED BY <1>3, <1>4, <1>5, EndsQuietly

\* A write that fails leaves the row as it was; a sample goes on to its cache.
LEMMA WriteFailsStep ==
    ASSUME IInv, NEW w \in Who, NEW h \in Hosts, WriteFails(w, h)
    PROVE  IInv'
<1>1. PICK c \in CallRecords : c = call[w][h]
  BY AtWork
<1>2. /\ c.pc \in {"record", "online", "offline", "save"} /\ c.op # "none"
      /\ ~c.old => /\ Current(c, row[h].addr, serves[h][row[h].addr])
                   /\ h \notin tainted => Trusts(c, serves[h][row[h].addr])
      /\ c.op = "metrics" => h \in Sampling(w)
      /\ c.pc = "offline" \/ c.status = "offline" => h \in failed
      /\ UNCHANGED <<row, failed, tainted, serves, left, cache, rekeys>>
  <2>1. /\ c.pc \in {"record", "online", "offline", "save"}
        /\ UNCHANGED <<row, failed, tainted, serves, left, cache, rekeys>>
    BY <1>1 DEF WriteFails, At, rowVars
  <2> QED BY <1>1, <2>1, AtWork
<1>3. call \in [Who -> [Hosts -> CallRecords]]
  BY DEF IInv, Typed
<1>4. \/ call' = [call EXCEPT ![w][h] = NoCall]
      \/ call' = [call EXCEPT ![w][h] = [c EXCEPT !.pc = "online"]]
      \/ /\ c.pc \in {"online", "offline"}
         /\ call' = [call EXCEPT ![w][h] = [c EXCEPT !.pc = "cache", !.status = c.pc]]
  BY <1>1, <1>3 DEF WriteFails, At, End
<1>5. ASSUME NEW new \in CallRecords, call' = [call EXCEPT ![w][h] = new],
             new.op = c.op, new.known = c.known, new.addr = c.addr, new.key = c.key,
             new.old = c.old, new.pc \in {"online", "cache"},
             new.status = "offline" => h \in failed,
             new.pc = "cache" => new.status # "unknown"
      PROVE  IInv'
  <2>1. ~new.old => /\ Current(new, row[h].addr, serves[h][row[h].addr])
                    /\ h \notin tainted => Trusts(new, serves[h][row[h].addr])
    BY <1>2, <1>5 DEF Current, Trusts
  <2>2. JustMoves(w, h, new)
    BY <1>2, <1>5, <2>1 DEF JustMoves
  <2> QED BY <2>2, CallMoves
<1>6. CASE call' = [call EXCEPT ![w][h] = [c EXCEPT !.pc = "online"]]
  <2>1. PICK new : new = [c EXCEPT !.pc = "online"]
    OBVIOUS
  <2>2. /\ new \in CallRecords /\ new.pc = "online" /\ new.op = c.op /\ new.known = c.known
        /\ new.addr = c.addr /\ new.status = c.status /\ new.key = c.key /\ new.old = c.old
    BY <2>1, WithPc DEF Pcs
  <2> QED BY <1>2, <1>5, <1>6, <2>1, <2>2
<1>7. CASE /\ c.pc \in {"online", "offline"}
           /\ call' = [call EXCEPT ![w][h] = [c EXCEPT !.pc = "cache", !.status = c.pc]]
  <2>1. PICK new : new = [c EXCEPT !.pc = "cache", !.status = c.pc]
    OBVIOUS
  <2>2. /\ new \in CallRecords /\ new.pc = "cache" /\ new.op = c.op /\ new.known = c.known
        /\ new.addr = c.addr /\ new.status = c.pc /\ new.key = c.key /\ new.old = c.old
    BY <1>7, <2>1 DEF CallRecords, Pcs
  <2> QED BY <1>2, <1>5, <1>7, <2>1, <2>2
<1> QED BY <1>2, <1>4, <1>6, <1>7, EndsQuietly

\* A key is recorded where there is none, and trusted when the call was not overtaken.
LEMMA RecordStep ==
    ASSUME IInv, NEW w \in Who, NEW h \in Hosts, RecordHostKey(w, h)
    PROVE  IInv'
<1>1. PICK c \in CallRecords : c = call[w][h]
  BY AtWork
<1>2. /\ c.pc = "record" /\ c.op # "none"
      /\ row' = IF MayRecord(h) THEN [row EXCEPT ![h].key = c.key] ELSE row
      /\ tainted' = IF MayRecord(h) /\ c.old THEN tainted \cup {h} ELSE tainted
      /\ call' = [call EXCEPT ![w][h] = IF c.op = "dial" THEN NoCall ELSE [c EXCEPT !.pc = "online"]]
      /\ UNCHANGED <<cache, serves, left, failed, rekeys>>
  BY <1>1, AtWork DEF RecordHostKey, bounds
<1>3. /\ row \in [Hosts -> Row] /\ row[h] \in Row
      /\ ~c.old => /\ Current(c, row[h].addr, serves[h][row[h].addr])
                   /\ h \notin tainted => Trusts(c, serves[h][row[h].addr])
      /\ c.op = "metrics" => h \in Sampling(w)
      /\ c.status = "offline" => h \in failed
  BY <1>1, <1>2, AtWork
<1>4. PICK new : new = IF c.op = "dial" THEN NoCall ELSE [c EXCEPT !.pc = "online"]
  OBVIOUS
<1>5. /\ new \in CallRecords
      /\ \/ new.op = "none" /\ new.pc = "none" /\ new.status = "unknown"
         \/ /\ new.pc = "online" /\ new.key = c.key /\ new.op = c.op /\ new.old = c.old
            /\ new.known = c.known /\ new.addr = c.addr /\ new.status = c.status
  BY <1>4, NoCallFields, WithPc DEF Pcs
<1>6. PICK r : r = IF MayRecord(h) THEN [row[h] EXCEPT !.key = c.key] ELSE row[h]
  OBVIOUS
<1>7. /\ r \in Row /\ r.addr = row[h].addr /\ r.status = row[h].status
      /\ MayRecord(h) => r.key = c.key
      /\ ~MayRecord(h) => r.key = row[h].key
  BY <1>3, <1>6 DEF Row, CallRecords
<1>8. row' = [row EXCEPT ![h] = r] /\ call' = [call EXCEPT ![w][h] = new]
  BY <1>2, <1>3, <1>4, <1>6
<1>9. /\ cache' \in [Hosts -> CacheStates]
      /\ cache'[h] = "offline" => h \in failed'
      /\ r.status = "offline" => h \in failed'
  BY <1>2, <1>7 DEF IInv, Typed, OfflineMeansAFailure
<1>10. h \notin tainted' /\ r.key # NoKey => r.key = serves[h][r.addr]
  <2>1. CASE MayRecord(h)
    BY <1>2, <1>3, <1>7, <2>1 DEF Current
  <2>2. CASE ~MayRecord(h)
    BY <1>2, <1>7, <2>2 DEF IInv, KnownKeyIsTheHosts
  <2> QED BY <2>1, <2>2
<1>11. new.op # "none" /\ new.pc # "slot" /\ ~new.old =>
          /\ Current(new, row[h].addr, serves[h][row[h].addr])
          /\ h \notin tainted' => Trusts(new, serves[h][row[h].addr])
  BY <1>2, <1>3, <1>5 DEF Current, Trusts
<1>12. Moves(w, h, new, r)
  BY <1>2, <1>3, <1>5, <1>7, <1>8, <1>9, <1>10, <1>11 DEF Moves
<1> QED BY <1>12, CallStep

\* A test writes what it saw, a sample only the status.
LEMMA ReportStep ==
    ASSUME IInv, NEW w \in Who, NEW h \in Hosts, TestEnds(w, h) \/ SaveStatus(w, h)
    PROVE  IInv'
<1>1. PICK c \in CallRecords : c = call[w][h]
  BY AtWork
<1> DEFINE learned == c.pc = "online" /\ c.known = NoKey /\ c.op = "test"
<1>2. /\ c.pc \in {"online", "offline"} /\ c.op \in {"test", "metrics"}
      /\ c.op = "test" => TestEnds(w, h)
      /\ c.op = "metrics" => SaveStatus(w, h)
      /\ UNCHANGED <<cache, serves, left, failed, rekeys>>
  BY <1>1 DEF TestEnds, SaveStatus, bounds
<1>3. /\ row \in [Hosts -> Row] /\ row[h] \in Row
      /\ ~c.old => /\ Current(c, row[h].addr, serves[h][row[h].addr])
                   /\ h \notin tainted => Trusts(c, serves[h][row[h].addr])
      /\ c.op = "metrics" => h \in Sampling(w)
      /\ c.pc = "offline" => h \in failed
  BY <1>1, <1>2, AtWork
<1>4. PICK k \in Keys \cup {NoKey} : k = IF learned THEN c.key ELSE row[h].key
  BY <1>3 DEF Row, CallRecords
<1>5. PICK r : r = [row[h] EXCEPT !.status = c.pc, !.key = k]
  OBVIOUS
<1>6. r \in Row /\ r.addr = row[h].addr /\ r.status = c.pc /\ r.key = k
  BY <1>2, <1>3, <1>5 DEF Row
<1>7. row' = [row EXCEPT ![h] = r]
  <2>1. CASE c.op = "test"
    BY <1>1, <1>2, <1>3, <1>4, <1>5, <2>1 DEF TestEnds
  <2>2. CASE c.op = "metrics"
    <3>1. row' = [row EXCEPT ![h].status = c.pc] /\ k = row[h].key
      BY <1>1, <1>2, <1>4, <2>2 DEF SaveStatus
    <3>2. [row[h] EXCEPT !.status = c.pc] = r
      BY <1>3, <1>5, <3>1 DEF Row
    <3> QED BY <1>3, <3>1, <3>2
  <2> QED BY <1>2, <2>1, <2>2
<1>8. tainted' = IF learned /\ c.old THEN tainted \cup {h} ELSE tainted
  BY <1>1, <1>2 DEF TestEnds, SaveStatus
<1>9. PICK new : /\ call' = [call EXCEPT ![w][h] = new]
                 /\ new = IF c.op = "test" THEN NoCall ELSE [c EXCEPT !.pc = "cache", !.status = c.pc]
  <2>1. CASE c.op = "test"
    BY <1>2, <2>1 DEF TestEnds, End
  <2>2. CASE c.op = "metrics"
    <3>1. call' = [call EXCEPT ![w][h] = [c EXCEPT !.pc = "cache", !.status = c.pc]]
      BY <1>1, <1>2, <2>2 DEF SaveStatus, IInv, Typed
    <3> QED BY <2>2, <3>1
  <2> QED BY <1>2, <2>1, <2>2
<1>10. /\ new \in CallRecords
       /\ \/ new.op = "none" /\ new.pc = "none" /\ new.status = "unknown"
          \/ /\ new.pc = "cache" /\ new.key = c.key /\ new.op = c.op /\ new.old = c.old
             /\ new.known = c.known /\ new.addr = c.addr /\ new.status = c.pc
  <2>1. CASE c.op = "test"
    BY <1>9, <2>1, NoCallFields
  <2>2. CASE c.op = "metrics"
    BY <1>2, <1>9, <2>2 DEF CallRecords, Pcs
  <2> QED BY <1>2, <2>1, <2>2
<1>11. /\ cache' \in [Hosts -> CacheStates]
       /\ cache'[h] = "offline" => h \in failed'
  BY <1>2 DEF IInv, Typed, OfflineMeansAFailure
<1>12. h \notin tainted' /\ r.key # NoKey => r.key = serves[h][r.addr]
  <2>1. CASE learned
    BY <1>2, <1>3, <1>4, <1>6, <1>8, <2>1 DEF Current
  <2>2. CASE ~learned
    BY <1>4, <1>6, <1>8, <2>2 DEF IInv, KnownKeyIsTheHosts
  <2> QED BY <2>1, <2>2
<1>13. new.op # "none" /\ new.pc # "slot" /\ ~new.old =>
          /\ Current(new, row[h].addr, serves[h][row[h].addr])
          /\ h \notin tainted' => Trusts(new, serves[h][row[h].addr])
  BY <1>2, <1>3, <1>8, <1>10 DEF Current, Trusts
<1> HIDE DEF learned
<1>14. Moves(w, h, new, r)
  BY <1>2, <1>3, <1>6, <1>7, <1>8, <1>9, <1>10, <1>11, <1>12, <1>13 DEF Moves
<1> QED BY <1>14, CallStep

\* The view of a sample goes to the cache.
LEMMA CacheStep ==
    ASSUME IInv, NEW w \in Who, NEW h \in Hosts, CacheMetrics(w, h)
    PROVE  IInv'
<1>1. PICK c \in CallRecords : c = call[w][h]
  BY AtWork
<1>2. /\ cache' = [cache EXCEPT ![h] = c.status] /\ c.pc = "cache"
      /\ call' = [call EXCEPT ![w][h] = NoCall]
      /\ UNCHANGED <<row, tainted, failed, serves, left, rekeys>>
  BY <1>1 DEF CacheMetrics, At, End, rowVars, bounds
<1>3. c.status = "offline" => h \in failed
  BY <1>1, AtWork
<1>4. c.status \in CacheStates
  BY <1>1, <1>2, AtWork DEF CallRecords, CacheStates
<1>5. /\ cache' \in [Hosts -> CacheStates]
      /\ cache'[h] = c.status /\ \A g \in Hosts : g # h => cache'[g] = cache[g]
  BY <1>2, <1>4 DEF IInv, Typed
<1>6. row[h] \in Row /\ row' = [row EXCEPT ![h] = row[h]]
  BY <1>2 DEF IInv, TypeOK
<1>7. /\ row[h].status = "offline" => h \in failed'
      /\ h \notin tainted' /\ row[h].key # NoKey => row[h].key = serves[h][row[h].addr]
  BY <1>2 DEF IInv, OfflineMeansAFailure, KnownKeyIsTheHosts
<1>8. Moves(w, h, NoCall, row[h])
  BY <1>2, <1>3, <1>5, <1>6, <1>7, NoCallFields DEF Moves
<1> QED BY <1>8, CallStep

\* A call of base is the call of w but for being overtaken.
Overtakes(base, S) ==
    /\ base \in [Who -> [Hosts -> CallRecords]]
    /\ \A v \in Who, g \in Hosts :
          /\ base[v][g].op = call[v][g].op /\ base[v][g].pc = call[v][g].pc
          /\ base[v][g].known = call[v][g].known /\ base[v][g].addr = call[v][g].addr
          /\ base[v][g].status = call[v][g].status /\ base[v][g].key = call[v][g].key
          /\ call[v][g].old => base[v][g].old
          /\ <<v, g>> \in S /\ call[v][g].op # "none" => base[v][g].old

\* Outdated overtakes the calls of its set and changes nothing else of any call.
LEMMA OutdatedFields ==
    ASSUME IInv, NEW S
    PROVE  Overtakes(Outdated(S), S)
<1>1. call \in [Who -> [Hosts -> CallRecords]]
  BY DEF IInv, Typed
<1>2. PICK base : base = Outdated(S)
  OBVIOUS
<1>3. ASSUME NEW v \in Who, NEW g \in Hosts
      PROVE  base[v][g] = IF <<v, g>> \in S /\ call[v][g].op # "none"
                          THEN [call[v][g] EXCEPT !.old = TRUE] ELSE call[v][g]
  BY <1>2 DEF Outdated
<1>4. ASSUME NEW v \in Who, NEW g \in Hosts
      PROVE  /\ base[v][g] \in CallRecords
             /\ base[v][g].op = call[v][g].op /\ base[v][g].pc = call[v][g].pc
             /\ base[v][g].known = call[v][g].known /\ base[v][g].addr = call[v][g].addr
             /\ base[v][g].status = call[v][g].status /\ base[v][g].key = call[v][g].key
             /\ call[v][g].old => base[v][g].old
             /\ <<v, g>> \in S /\ call[v][g].op # "none" => base[v][g].old
  <2>1. PICK c \in CallRecords : c = call[v][g]
    BY <1>1
  <2> QED BY <1>3, <2>1, Overtaken
<1>5. base \in [Who -> [Hosts -> CallRecords]]
  BY <1>2, <1>4 DEF Outdated
<1> QED BY <1>2, <1>4, <1>5 DEF Overtakes

\* An update saves what it read, and overtakes the other calls when it changes the address
\* or takes the key away.
LEMMA UpdateStep ==
    ASSUME IInv, NEW w \in Who, NEW h \in Hosts,
           NEW a \in Addrs, NEW newSecret \in BOOLEAN, UpdateSaves(w, h, a, newSecret)
    PROVE  IInv'
<1> USE DEF IInv
<1>1. PICK c \in CallRecords : c = call[w][h]
  BY AtWork
<1>2. PICK works \in BOOLEAN :
        row' = [row EXCEPT ![h] = [addr |-> a, works |-> works,
                   key |-> KeyAfter(newSecret, c.known), status |-> c.status]]
  BY <1>1 DEF UpdateSaves
<1>3. PICK base : base = IF newSecret \/ a # row[h].addr THEN Outdated(Who \X {h}) ELSE call
  OBVIOUS
<1>4. /\ c.op = "update" /\ c.pc = "save"
      /\ tainted' = IF newSecret THEN tainted \ {h}
                    ELSE IF c.old \/ a # c.addr THEN tainted \cup {h} ELSE tainted
      /\ call' = [base EXCEPT ![w][h] = NoCall]
      /\ UNCHANGED <<cache, serves, left, failed, rekeys>>
  BY <1>1, <1>3 DEF UpdateSaves, At, bounds
<1>5. /\ Overtakes(base, {})
      /\ newSecret \/ a # row[h].addr =>
            \A v \in Who : call[v][h].op # "none" => base[v][h].old
  <2>1. CASE newSecret \/ a # row[h].addr
    <3>1. Overtakes(base, Who \X {h})
      BY <1>3, <2>1, OutdatedFields
    <3> QED BY <3>1 DEF Overtakes
  <2>2. CASE ~(newSecret \/ a # row[h].addr)
    BY <1>3, <2>2 DEF Overtakes, Typed
  <2> QED BY <2>1, <2>2
<1>6. /\ call' \in [Who -> [Hosts -> CallRecords]] /\ call'[w][h] = NoCall
      /\ \A v \in Who, g \in Hosts : <<v, g>> # <<w, h>> => call'[v][g] = base[v][g]
  BY <1>4, <1>5, NoCallFields DEF Overtakes
<1>7. /\ c.known \in Keys \cup {NoKey}
      /\ c.status = "offline" => h \in failed
      /\ ~c.old => /\ c.addr = row[h].addr
                   /\ h \notin tainted /\ c.known # NoKey => c.known = serves[h][row[h].addr]
  BY <1>1, <1>4, AtWork DEF CallRecords, Current, Trusts
<1>8. /\ row' \in [Hosts -> Row]
      /\ row'[h].addr = a /\ row'[h].key = KeyAfter(newSecret, c.known)
      /\ row'[h].status = c.status
      /\ \A g \in Hosts : g # h => row'[g] = row[g]
  <2>1. [addr |-> a, works |-> works, key |-> KeyAfter(newSecret, c.known), status |-> c.status]
          \in Row
    BY <1>7 DEF Row, KeyAfter, CallRecords
  <2> QED BY <1>2, <2>1 DEF TypeOK
<1>9. \A g \in Hosts : g # h => (g \in tainted' <=> g \in tainted)
  BY <1>4
<1>10. Typed'
  BY <1>4, <1>6 DEF Typed
<1>11. ASSUME NEW v \in Who PROVE Cardinality(Sampling(v)') <= Concurrency
  <2>1. Sampling(v)' \subseteq Sampling(v)
    <3>1. ASSUME NEW g \in Sampling(v)' PROVE g \in Sampling(v)
      <4>1. g \in Hosts /\ call'[v][g].op = "metrics" /\ call'[v][g].pc # "slot"
        BY DEF Sampling
      <4>2. <<v, g>> # <<w, h>>
        BY <1>6, <4>1, NoCallFields
      <4> QED BY <1>5, <1>6, <4>1, <4>2 DEF Sampling, Overtakes
    <3> QED BY <3>1
  <2>2. IsFiniteSet(Sampling(v)) /\ Sampling(v) \subseteq Hosts
    BY HostAccessAssumption, FS_Subset DEF Sampling
  <2>3. /\ Cardinality(Sampling(v)') <= Cardinality(Sampling(v))
        /\ Cardinality(Sampling(v)') \in Nat /\ Cardinality(Sampling(v)) \in Nat
    BY <2>1, <2>2, FS_Subset, FS_CardinalityType
  <2>4. Cardinality(Sampling(v)) <= Concurrency /\ Concurrency \in Nat
    BY HostAccessAssumption DEF TypeOK
  <2> QED BY <2>3, <2>4
<1>12. TypeOK'
  BY <1>4, <1>8, <1>11 DEF TypeOK
<1>13. CallsKnow'
  <2>1. ASSUME NEW v \in Who, NEW g \in Hosts,
               call'[v][g].op # "none", call'[v][g].pc # "slot", ~call'[v][g].old
        PROVE  /\ Current(call'[v][g], row'[g].addr, serves[g][row'[g].addr])
               /\ g \notin tainted' => Trusts(call'[v][g], serves[g][row'[g].addr])
    <3>1. <<v, g>> # <<w, h>>
      BY <1>6, <2>1, NoCallFields
    <3>2. /\ call'[v][g].op = call[v][g].op /\ call'[v][g].pc = call[v][g].pc
          /\ call'[v][g].known = call[v][g].known /\ call'[v][g].addr = call[v][g].addr
          /\ call'[v][g].key = call[v][g].key /\ ~call[v][g].old
      BY <1>5, <1>6, <2>1, <3>1 DEF Overtakes
    <3>3. /\ Current(call[v][g], row[g].addr, serves[g][row[g].addr])
          /\ g \notin tainted => Trusts(call[v][g], serves[g][row[g].addr])
      BY <2>1, <3>2 DEF CallsKnow
    <3>4. CASE g = h
      <4>1. ~newSecret /\ a = row[h].addr
        BY <1>5, <1>6, <2>1, <3>1, <3>2, <3>4
      <4>2. g \notin tainted' => g \notin tainted
        BY <1>4, <4>1
      <4> QED BY <1>8, <3>2, <3>3, <3>4, <4>1, <4>2 DEF Current, Trusts
    <3>5. CASE g # h
      BY <1>8, <1>9, <3>2, <3>3, <3>5 DEF Current, Trusts
    <3> QED BY <3>4, <3>5
  <2> QED BY <1>4, <2>1 DEF CallsKnow
<1>14. CallsReport'
  <2>1. ASSUME NEW v \in Who, NEW g \in Hosts
        PROVE  /\ call'[v][g].op = "none" => call'[v][g].pc = "none"
               /\ call'[v][g].pc = "offline" \/ call'[v][g].status = "offline" => g \in failed
               /\ call'[v][g].pc = "cache" => call'[v][g].status # "unknown"
    <3>1. CASE <<v, g>> = <<w, h>>
      BY <1>6, <3>1, NoCallFields
    <3>2. CASE <<v, g>> # <<w, h>>
      <4>1. /\ call'[v][g].op = call[v][g].op /\ call'[v][g].pc = call[v][g].pc
            /\ call'[v][g].status = call[v][g].status
        BY <1>5, <1>6, <3>2 DEF Overtakes
      <4> QED BY <4>1 DEF CallsReport
    <3> QED BY <3>1, <3>2
  <2> QED BY <1>4, <2>1 DEF CallsReport
<1>15. KnownKeyIsTheHosts'
  <2>1. row'[h].key # NoKey /\ h \notin tainted' => row'[h].key = serves[h][a]
    BY <1>4, <1>7, <1>8 DEF KeyAfter
  <2> QED BY <1>4, <1>8, <1>9, <2>1 DEF KnownKeyIsTheHosts
<1>16. OfflineMeansAFailure'
  BY <1>4, <1>7, <1>8 DEF OfflineMeansAFailure
<1> QED BY <1>10, <1>12, <1>13, <1>14, <1>15, <1>16

\* The host answers with another key: what was recorded or shown is of another time.
LEMMA RekeyStep ==
    ASSUME IInv, NEW h \in Hosts, Rekey(h)
    PROVE  IInv'
<1> USE DEF IInv
<1> DEFINE S == {<<w, h>> : w \in {v \in Who : call[v][h].key # NoKey \/ call[v][h].op = "update"}}
<1>1. /\ rekeys < MaxRekeys /\ rekeys' = rekeys + 1
      /\ serves' = [serves EXCEPT ![h][row[h].addr] = <<row[h].addr, rekeys'>>]
      /\ tainted' = IF row[h].key = NoKey THEN tainted ELSE tainted \cup {h}
      /\ call' = Outdated(S)
      /\ UNCHANGED <<row, failed, cache, left>>
  BY DEF Rekey
<1>2. Overtakes(call', S)
  BY <1>1, OutdatedFields
<1>3. \A v \in Who : call[v][h].key # NoKey \/ call[v][h].op = "update" => <<v, h>> \in S
  OBVIOUS
<1> HIDE DEF S
<1>4. /\ rekeys' \in 0..MaxRekeys /\ row[h].addr \in Addrs
      /\ <<row[h].addr, rekeys'>> \in Keys
  <2>1. MaxRekeys \in Nat /\ rekeys \in 0..MaxRekeys
    BY HostAccessAssumption DEF Typed
  <2>2. rekeys' \in 0..MaxRekeys
    BY <1>1, <2>1
  <2>3. row[h].addr \in Addrs
    BY DEF TypeOK, Row
  <2> QED BY <2>2, <2>3 DEF Keys
<1>5. /\ serves' \in [Hosts -> [Addrs -> Keys]]
      /\ \A g \in Hosts : g # h => serves'[g] = serves[g]
  BY <1>1, <1>4 DEF Typed
<1>6. Typed'
  BY <1>1, <1>2, <1>4, <1>5 DEF Typed, Overtakes
<1>7. TypeOK'
  <2>1. \A v \in Who : Sampling(v)' = Sampling(v)
    BY <1>2 DEF Sampling, Overtakes
  <2>2. \A v \in Who : Cardinality(Sampling(v)') <= Concurrency
    BY <2>1 DEF TypeOK
  <2> QED BY <1>1, <1>5, <2>2 DEF TypeOK
<1>8. CallsKnow'
  <2>1. ASSUME NEW v \in Who, NEW g \in Hosts,
               call'[v][g].op # "none", call'[v][g].pc # "slot", ~call'[v][g].old
        PROVE  /\ Current(call'[v][g], row[g].addr, serves'[g][row[g].addr])
               /\ g \notin tainted' => Trusts(call'[v][g], serves'[g][row[g].addr])
    <3>1. /\ call'[v][g].op = call[v][g].op /\ call'[v][g].pc = call[v][g].pc
          /\ call'[v][g].known = call[v][g].known /\ call'[v][g].addr = call[v][g].addr
          /\ call'[v][g].key = call[v][g].key /\ ~call[v][g].old
          /\ <<v, g>> \notin S
      BY <1>2, <2>1 DEF Overtakes
    <3>2. /\ Current(call[v][g], row[g].addr, serves[g][row[g].addr])
          /\ g \notin tainted => Trusts(call[v][g], serves[g][row[g].addr])
      BY <2>1, <3>1 DEF CallsKnow
    <3>3. CASE g = h
      <4>1. call[v][h].key = NoKey /\ call[v][h].op # "update"
        BY <1>3, <3>1, <3>3
      <4> QED BY <3>1, <3>2, <3>3, <4>1 DEF Current, Trusts
    <3>4. CASE g # h
      BY <1>1, <1>5, <3>1, <3>2, <3>4 DEF Current, Trusts
    <3> QED BY <3>3, <3>4
  <2> QED BY <1>1, <2>1 DEF CallsKnow
<1>9. CallsReport'
  <2>1. ASSUME NEW v \in Who, NEW g \in Hosts
        PROVE  /\ call'[v][g].op = call[v][g].op /\ call'[v][g].pc = call[v][g].pc
               /\ call'[v][g].status = call[v][g].status
    BY <1>2 DEF Overtakes
  <2> QED BY <1>1, <2>1 DEF CallsReport
<1>10. KnownKeyIsTheHosts'
  BY <1>1, <1>5 DEF KnownKeyIsTheHosts
<1>11. OfflineMeansAFailure'
  BY <1>1 DEF OfflineMeansAFailure
<1> QED BY <1>6, <1>7, <1>8, <1>9, <1>10, <1>11

\* The cache forgets, viewers come and go, or nothing happens.
LEMMA QuietStep ==
    ASSUME IInv,
           UNCHANGED <<rowVars, serves, call, rekeys>>,
           left' \subseteq Who,
           cache' = cache \/ \E h \in Hosts : cache' = [cache EXCEPT ![h] = "none"]
    PROVE  IInv'
<1> USE DEF IInv
<1>1. /\ cache' \in [Hosts -> CacheStates]
      /\ \A h \in Hosts : cache'[h] = "offline" => cache[h] = "offline"
  BY DEF Typed, CacheStates
<1>2. \A v : Sampling(v)' = Sampling(v)
  BY DEF Sampling
<1>3. TypeOK'
  BY <1>1, <1>2 DEF TypeOK, rowVars, CacheStates
<1>4. Typed'
  BY <1>1 DEF Typed
<1>5. CallsKnow' /\ CallsReport'
  BY DEF CallsKnow, CallsReport, rowVars
<1>6. KnownKeyIsTheHosts' /\ OfflineMeansAFailure'
  BY <1>1 DEF KnownKeyIsTheHosts, OfflineMeansAFailure, rowVars
<1> QED BY <1>3, <1>4, <1>5, <1>6

-----------------------------------------------------------------------------
(* The theorems                                                             *)

\* A new host has no key and an unknown status.
LEMMA Start == Init => IInv
<1> SUFFICES ASSUME Init PROVE IInv
  OBVIOUS
<1> USE DEF Init
<1>1. row \in [Hosts -> Row]
      /\ \A h \in Hosts : row[h].key = NoKey /\ row[h].status = "unknown"
  BY DEF Row, Addrs
<1>2. \A a \in Addrs : <<a, 0>> \in Keys
  <2>1. 0 \in 0..MaxRekeys
    BY HostAccessAssumption
  <2> QED BY <2>1 DEF Keys
<1>3. serves \in [Hosts -> [Addrs -> Keys]]
  BY <1>2
<1>4. Typed
  <2>1. rekeys \in 0..MaxRekeys
    BY HostAccessAssumption
  <2> QED BY <1>3, <2>1, NoCallFields DEF Typed, CacheStates
<1>5. \A w \in Who, h \in Hosts : call[w][h] = NoCall
  OBVIOUS
<1>6. \A w \in Who : Cardinality(Sampling(w)) <= Concurrency
  <2>1. \A w \in Who : Sampling(w) = {}
    BY <1>5, NoCallFields DEF Sampling
  <2>2. 0 <= Concurrency
    BY HostAccessAssumption
  <2> QED BY <2>1, <2>2, FS_EmptySet
<1>7. TypeOK
  BY <1>1, <1>3, <1>6 DEF TypeOK
<1>8. CallsKnow /\ CallsReport
  BY <1>5, NoCallFields DEF CallsKnow, CallsReport
<1>9. KnownKeyIsTheHosts /\ OfflineMeansAFailure
  BY <1>1 DEF KnownKeyIsTheHosts, OfflineMeansAFailure
<1> QED BY <1>4, <1>7, <1>8, <1>9 DEF IInv

\* Every step of a request, of the server and of the world around it keeps the invariant.
LEMMA Step == IInv /\ [Next]_vars => IInv'
<1> SUFFICES ASSUME IInv, [Next]_vars PROVE IInv'
  OBVIOUS
<1>1. ASSUME NEW w \in Who, NEW h \in Hosts,
             \/ Connect(w, h, "dial") \/ Connect(w, h, "test")
             \/ Ask(w, h) \/ TakeSlot(w, h) \/ AuthFails(w, h) \/ LeaveSlot(w, h)
             \/ UpdateReads(w, h)
      PROVE  IInv'
  BY <1>1, Begins
<1>2. ASSUME NEW w \in Who, NEW h \in Hosts,
             \/ Dialled(w, h) \/ DialFails(w, h) \/ PingFails(w, h) \/ RecordHostKey(w, h)
             \/ TestEnds(w, h) \/ SaveStatus(w, h) \/ CacheMetrics(w, h) \/ WriteFails(w, h)
      PROVE  IInv'
  BY <1>2, DialledStep, FailsStep, RecordStep, ReportStep, CacheStep,
     WriteFailsStep
<1>3. ASSUME NEW w \in Who, NEW h \in Hosts, NEW a \in Addrs, NEW newSecret \in BOOLEAN,
             UpdateSaves(w, h, a, newSecret)
      PROVE  IInv'
  BY <1>3, UpdateStep
<1>4. ASSUME NEW h \in Hosts, Expire(h) \/ Rekey(h) PROVE IInv'
  <2>1. CASE Expire(h)
    <3>1. left \subseteq Who
      BY DEF IInv, TypeOK
    <3> QED BY <2>1, <3>1, QuietStep DEF Expire, bounds
  <2> QED BY <1>4, <2>1, RekeyStep
<1>5. ASSUME NEW w \in Who, Leave(w) \/ Return(w) PROVE IInv'
  <2>1. left' \subseteq Who
    BY <1>5 DEF IInv, TypeOK, Leave, Return
  <2> QED BY <1>5, <2>1, QuietStep DEF Leave, Return, bounds
<1>6. CASE UNCHANGED vars
  <2>1. left' \subseteq Who
    BY <1>6 DEF IInv, TypeOK, vars
  <2> QED BY <1>6, <2>1, QuietStep DEF vars, bounds
<1> QED BY <1>1, <1>2, <1>3, <1>4, <1>5, <1>6 DEF Next

\* The invariant holds of every state that can be reached.
THEOREM Invariance == Spec => []IInv
<1>1. Init => IInv
  BY Start
<1>2. IInv /\ [Next]_vars => IInv'
  BY Step
<1> QED BY <1>1, <1>2, PTL DEF Spec

\* Every variable keeps its type, and one Metrics never has more samples at work than
\* hostMetricsConcurrency allows, whatever number of hosts it was asked for.
THEOREM TypeCorrect == Spec => []TypeOK
<1>1. IInv => TypeOK
  BY DEF IInv
<1> QED BY <1>1, Invariance, PTL

\* A recorded key is the one the host has, but for the ways KnownKeyIsTheHosts names.
THEOREM KnownKeyIsTheHostsHolds == Spec => []KnownKeyIsTheHosts
<1>1. IInv => KnownKeyIsTheHosts
  BY DEF IInv
<1> QED BY <1>1, Invariance, PTL

\* Only a connection, or a read of its credentials, that failed makes a host offline, in its
\* row or in the dashboard.
THEOREM OfflineMeansAFailureHolds == Spec => []OfflineMeansAFailure
<1>1. IInv => OfflineMeansAFailure
  BY DEF IInv
<1> QED BY <1>1, Invariance, PTL

\* Only the save of an update, and a test that knew no key, take a recorded key away.
LEMMA KeyStep ==
    ASSUME IInv, Next, NEW h \in Hosts, row[h].key # NoKey, row'[h].key # row[h].key
    PROVE  \E w \in Who :
             /\ call[w][h].op # "none" /\ call'[w][h].op = "none"
             /\ \/ call[w][h].op = "update"
                \/ call[w][h].op = "test" /\ call[w][h].known = NoKey
<1>1. row \in [Hosts -> Row] /\ call \in [Who -> [Hosts -> CallRecords]]
  BY DEF IInv, TypeOK, Typed
<1>2. PICK w \in Who, g \in Hosts :
        \/ RecordHostKey(w, g) \/ TestEnds(w, g) \/ SaveStatus(w, g)
        \/ \E a \in Addrs, newSecret \in BOOLEAN : UpdateSaves(w, g, a, newSecret)
  <2>1. row' # row
    OBVIOUS
  <2>2. ASSUME NEW w \in Who, NEW g \in Hosts,
               \/ Connect(w, g, "dial") \/ Connect(w, g, "test") \/ Dialled(w, g)
               \/ DialFails(w, g) \/ PingFails(w, g) \/ Ask(w, g) \/ TakeSlot(w, g)
               \/ AuthFails(w, g) \/ LeaveSlot(w, g) \/ CacheMetrics(w, g)
               \/ WriteFails(w, g) \/ UpdateReads(w, g)
        PROVE  row' = row
    BY <2>2 DEF Connect, Dialled, DialFails, PingFails, Ask, TakeSlot, AuthFails,
                LeaveSlot, CacheMetrics, WriteFails, UpdateReads, rowVars
  <2>3. ASSUME NEW g \in Hosts, Expire(g) \/ Rekey(g) PROVE row' = row
    BY <2>3 DEF Expire, Rekey, rowVars
  <2>4. ASSUME NEW w \in Who, Leave(w) \/ Return(w) PROVE row' = row
    BY <2>4 DEF Leave, Return, rowVars
  <2> QED BY <2>1, <2>2, <2>3, <2>4 DEF Next
<1>3. PICK c \in CallRecords : c = call[w][g]
  BY <1>1
<1>4. CASE RecordHostKey(w, g)
  BY <1>1, <1>4 DEF RecordHostKey, MayRecord
<1>5. CASE SaveStatus(w, g)
  BY <1>1, <1>5 DEF SaveStatus, Row
<1>6. CASE TestEnds(w, g)
  <2>1. g = h /\ c.op = "test" /\ c.known = NoKey
    BY <1>1, <1>3, <1>6 DEF TestEnds, Row
  <2>2. call'[w][h].op = "none"
    BY <1>1, <1>6, <2>1, NoCallFields DEF TestEnds, End
  <2> QED BY <1>3, <2>1, <2>2
<1>7. ASSUME NEW a \in Addrs, NEW newSecret \in BOOLEAN, UpdateSaves(w, g, a, newSecret)
      PROVE  g = h /\ c.op = "update" /\ call'[w][h].op = "none"
  <2>1. g = h /\ c.op = "update"
    BY <1>1, <1>3, <1>7 DEF UpdateSaves, At
  <2>2. PICK base \in [Who -> [Hosts -> CallRecords]] : call' = [base EXCEPT ![w][g] = NoCall]
    <3>1. Outdated(Who \X {g}) \in [Who -> [Hosts -> CallRecords]]
      BY OutdatedFields DEF Overtakes
    <3> QED BY <1>1, <1>7, <3>1 DEF UpdateSaves
  <2> QED BY <2>1, <2>2, NoCallFields
<1> QED BY <1>2, <1>3, <1>4, <1>5, <1>6, <1>7

\* Trust on first use, once and for all: of two first connections the first to record
\* decides, and nothing but an update or a test of that moment changes the key.
THEOREM KeysAreKeptHolds == Spec => KeysAreKept
<1>1. IInv /\ [Next]_vars =>
        [\A h \in Hosts : row[h].key # NoKey /\ row'[h].key # row[h].key =>
          \E w \in Who :
            /\ call[w][h].op # "none" /\ call'[w][h].op = "none"
            /\ \/ call[w][h].op = "update"
               \/ call[w][h].op = "test" /\ call[w][h].known = NoKey]_vars
  BY KeyStep
<1> QED BY <1>1, Invariance, PTL DEF Spec, KeysAreKept
=============================================================================
