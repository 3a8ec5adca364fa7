------------------------------ MODULE WaitSet ------------------------------
(* Selectable waits of a world on the command-line host: each machine's      *)
(* table of wait tokens, the choices built over them, and the selection that *)
(* commits one source and cancels the others (world/waits.rs), with the host *)
(* side of the waits on standard input (InputService.tla).                   *)
(*                                                                           *)
(* One thread runs the world: a guest operation, a completion, or a wait     *)
(* that became ready, one at a time.  A commit or a cancel is a call to the  *)
(* input worker that blocks this thread for at most a second; `job` is the   *)
(* operation whose calls are under way.  A request's ordinal is represented  *)
(* by the token the host gave it.                                            *)
(*                                                                           *)
(* Left out: drive waits, and the waits on the other host services; the      *)
(* scheduler's indexes (Scheduler.tla); a wait tree found malformed, which   *)
(* WaitTreeWellFormed shows does not happen.                                 *)
EXTENDS InputService

CONSTANTS
    Machines,   \* machines, positive numbers: procs, and machines another one holds
    Procs,      \* the procs, which alone receive messages
    Programs,   \* what the guests may do: machine -> its operations
    max_waits   \* the most live waits of a machine

(* An operation, with a count of bytes and the waits or the proc it names. *)
Operations == [do : STRING, count : Nat, of : Seq(Nat)]

ASSUME WaitAssumption ==
    /\ Machines \subseteq Nat \ {0}
    /\ Procs \subseteq Machines
    /\ Programs \subseteq [Machines -> Seq(Operations)]
    /\ max_waits \in Nat

VARIABLES
    state,             \* of each machine
    waits,             \* machine -> token -> entry
    next_wait,         \* machine -> its next token
    block,             \* machine -> the wait it is blocked on, or 0
    direct,            \* machine -> the host token of the read it waits for, or 0
    mail,              \* proc -> its mailbox
    host_completions,  \* answers to prepared reads: host token -> bytes
    next_token,        \* the next host token
    wait_services,     \* host tokens of prepared waits
    job,               \* the operation whose host calls are under way
    todo,              \* machine -> the operations it has still to perform
    got,               \* bytes given to guests, in order
    lost,              \* machine -> bytes taken for it that it faulted on
    slow,              \* a call of the operation under way passed its deadline
    overlap,           \* a read began while another one was outstanding
    orphaned           \* host tokens of waits that their proc held when it ended

waitVars == <<state, waits, next_wait, block, direct, mail, host_completions, next_token,
              wait_services, job, todo, got, lost, slow, overlap, orphaned>>
vars == <<inputVars, waitVars>>

NoJob == [vm |-> 0, root |-> 0, calls |-> <<>>, then |-> "none", ok |-> TRUE, bytes |-> <<>>]

Init ==
    /\ InputInit
    /\ state = [m \in Machines |-> "ready"]
    /\ waits = [m \in Machines |-> <<>>]
    /\ next_wait = [m \in Machines |-> 1]
    /\ block = [m \in Machines |-> 0]
    /\ direct = [m \in Machines |-> 0]
    /\ mail = [m \in Procs |-> [queue |-> 0, closed |-> FALSE]]
    /\ host_completions = <<>>
    /\ next_token = 1
    /\ wait_services = {}
    /\ job = NoJob
    /\ todo \in Programs
    /\ got = <<>>
    /\ lost = [m \in Machines |-> <<>>]
    /\ slow = FALSE
    /\ overlap = FALSE
    /\ orphaned = {}

----------------------------------------------------------------------------
(* The table of waits. *)

Terminal(m) == state[m] \in {"done", "faulted"}

Entry(kind, scope, answered, kids) ==
    [kind |-> kind, scope |-> scope, ready |-> answered, kids |-> kids, linked |-> FALSE]

TableFull(m) == Cardinality(DOMAIN waits[m]) >= max_waits

(* The table after a choice or a set over `kids` was added: the kids now    *)
(* belong to it.                                                            *)
WithWait_Unlinked(m, e) == Insert(waits[m], next_wait[m], e)

WithWait(m, e) ==
    [t \in DOMAIN waits[m] \cup {next_wait[m]} |->
        IF t = next_wait[m] THEN e
        ELSE IF t \in Range(e.kids) THEN [waits[m][t] EXCEPT !.linked = TRUE] ELSE waits[m][t]]

(* wait_root_is_current: a wait that is in the table and that no choice     *)
(* uses.                                                                    *)
Current(m, t) == t \in DOMAIN waits[m] /\ ~waits[m][t].linked

(* The first n sequences of ss, one after the other. *)
Joined(ss, n) ==
    LET upTo[i \in 0..n] == IF i = 0 THEN <<>> ELSE upTo[i - 1] \o ss[i]
    IN upTo[n]

(* wait_tree: the tokens reachable from a root, *)
Closed(w, S) == \A t \in S : \A i \in DOMAIN w[t].kids : w[t].kids[i] \in S

Tree(w, root) ==
    LET closed == {S \in SUBSET DOMAIN w : root \in S /\ Closed(w, S)}
    IN {t \in DOMAIN w : \A S \in closed : t \in S}

(* and its leaves from left to right. *)
Leaves(w, root) ==
    LET under[t \in DOMAIN w] ==
            IF w[t].kids = <<>> THEN <<t>>
            ELSE Joined([i \in DOMAIN w[t].kids |-> under[w[t].kids[i]]], Len(w[t].kids))
    IN under[root]

(* The host tokens of some waits, left to right; an operation that the host *)
(* answered at once has none.                                               *)
Scopes(w, ts) ==
    Joined([i \in DOMAIN ts |-> IF w[ts[i]].scope = 0 THEN <<>> ELSE <<w[ts[i]].scope>>], Len(ts))

ScopeSet(w) == {w[t].scope : t \in DOMAIN w} \ {0}

LeafReady(m, e) ==
    \/ e.kind = "receive" /\ (mail[m].queue > 0 \/ mail[m].closed)
    \/ e.kind = "read" /\ (e.ready \/ e.scope \in DOMAIN host_completions)

ReadyAt(m, w, root) ==
    LET leaves == Leaves(w, root)
    IN {i \in DOMAIN leaves : LeafReady(m, w[leaves[i]])}

----------------------------------------------------------------------------
(* A machine ends, by itself or with a fault, with table w.  A proc is      *)
(* compacted at once: its waits and its resource records go.  Another       *)
(* machine keeps them until finish closes its resources.                    *)
Ends_KeepsBlock(m, how, w) ==
    /\ state' = [state EXCEPT ![m] = how]
    /\ UNCHANGED block
    /\ waits' = [waits EXCEPT ![m] = IF m \in Procs THEN <<>> ELSE w]
    /\ IF m \in Procs
       THEN /\ mail' = [mail EXCEPT ![m].queue = 0]
            /\ orphaned' = orphaned \cup (ScopeSet(w) \cap wait_services)
       ELSE UNCHANGED <<mail, orphaned>>

Ends(m, how, w) ==
    /\ state' = [state EXCEPT ![m] = how]
    /\ block' = [block EXCEPT ![m] = 0]
    /\ waits' = [waits EXCEPT ![m] = IF m \in Procs THEN <<>> ELSE w]
    /\ IF m \in Procs
       THEN /\ mail' = [mail EXCEPT ![m].queue = 0]
            /\ orphaned' = orphaned \cup (ScopeSet(w) \cap wait_services)
       ELSE UNCHANGED <<mail, orphaned>>

(* A guest operation: the machine runs, and no other operation is under way. *)
Acts(m) ==
    /\ job = NoJob
    /\ state[m] = "ready"
    /\ todo[m] # <<>>
    /\ todo' = [todo EXCEPT ![m] = Tail(@)]
    /\ UNCHANGED <<got, lost, slow>>

Faults(m) ==
    /\ Ends(m, "faulted", waits[m])
    /\ UNCHANGED <<inputVars, next_wait, direct, host_completions, next_token, wait_services,
                   job, overlap>>

(* allocate_wait: an entry under the next token, while the table has room.  *)
Allocates(m, e) ==
    /\ ~TableFull(m)
    /\ waits' = [waits EXCEPT ![m] = WithWait(m, e)]
    /\ next_wait' = [next_wait EXCEPT ![m] = @ + 1]

receive_wait(m) ==
    /\ \/ /\ m \in Procs
          /\ Allocates(m, Entry("receive", 0, FALSE, <<>>))
          /\ UNCHANGED <<inputVars, state, block, direct, mail, host_completions, next_token,
                         wait_services, job, overlap, orphaned>>
       \/ (m \notin Procs \/ TableFull(m)) /\ Faults(m)

(* A read is sent to the input worker under a new host token.               *)
Starts(t, n, w) ==
    /\ submit_stream(t, n, w)
    /\ next_token' = t + 1
    /\ overlap' = (overlap \/ wait_services # {} \/ \E m \in Machines : direct[m] # 0)

(* read_bytes.wait: the read is prepared.  When the table of waits has no   *)
(* room the read is cancelled again, and the machine faults.                *)
LimitJob_Forgets(m, t) == [NoJob EXCEPT !.vm = m, !.then = "limit"]

LimitJob(m, t) == [NoJob EXCEPT !.vm = m, !.calls = <<Cancel(t)>>, !.then = "limit"]

read_wait(m, n) ==
    LET t == next_token
    IN /\ Starts(t, n, TRUE)
       /\ wait_services' = wait_services \cup {t}
       /\ \/ /\ Allocates(m, Entry("read", t, FALSE, <<>>))
             /\ UNCHANGED job
          \/ /\ TableFull(m)
             /\ job' = LimitJob(m, t)
             /\ UNCHANGED <<waits, next_wait>>
       /\ UNCHANGED <<state, block, direct, mail, host_completions, orphaned>>

(* The service is full: the wait is ready at once, with an error. *)
read_wait_refused(m) ==
    /\ Full
    /\ next_token' = next_token + 1
    /\ \/ /\ Allocates(m, Entry("read", 0, TRUE, <<>>))
          /\ UNCHANGED <<state, block, mail, orphaned>>
       \/ TableFull(m) /\ Ends(m, "faulted", waits[m]) /\ UNCHANGED next_wait
    /\ UNCHANGED <<inputVars, direct, host_completions, wait_services, job, overlap>>

(* read_bytes: the machine waits for the answer, unless the service is full. *)
read_bytes(m, n) ==
    /\ \/ /\ Starts(next_token, n, FALSE)
          /\ state' = [state EXCEPT ![m] = "waiting"]
          /\ direct' = [direct EXCEPT ![m] = next_token]
       \/ /\ Full
          /\ next_token' = next_token + 1
          /\ UNCHANGED <<inputVars, state, direct, overlap>>
    /\ UNCHANGED <<waits, next_wait, block, mail, host_completions, wait_services, job, orphaned>>

choose(m, a, b) ==
    LET usable == a # b /\ Current(m, a) /\ Current(m, b)
    IN /\ \/ /\ usable
             /\ Allocates(m, Entry("choice", 0, FALSE, <<a, b>>))
             /\ UNCHANGED <<inputVars, state, block, direct, mail, host_completions, next_token,
                            wait_services, job, overlap, orphaned>>
          \/ (~usable \/ TableFull(m)) /\ Faults(m)

----------------------------------------------------------------------------
(* complete_ready_wait: the leftmost ready leaf wins.  Its value is taken   *)
(* first, with a commit when the host holds it; the other reads are then    *)
(* cancelled from left to right.                                            *)
Losers(leaves, i) == Without(leaves, i)

complete_ready_wait(m, w, root) ==
    LET leaves == Leaves(w, root)
        i == Min(ReadyAt(m, w, root))
        e == w[leaves[i]]
        cancelled == Scopes(w, Losers(leaves, i))
    IN /\ job' = [vm |-> m, root |-> root, then |-> "select", ok |-> TRUE,
                  calls |-> (IF e.scope = 0 THEN <<>> ELSE <<Commit(e.scope)>>)
                            \o [j \in DOMAIN cancelled |-> Cancel(cancelled[j])],
                  bytes |-> IF e.scope = 0 THEN <<>> ELSE host_completions[e.scope]]
       /\ host_completions' = [t \in DOMAIN host_completions \ Range(Scopes(w, leaves)) |->
                                  host_completions[t]]
       /\ mail' = IF e.kind = "receive" /\ mail[m].queue > 0
                  THEN [mail EXCEPT ![m].queue = @ - 1] ELSE mail

(* The machine selects at once, or blocks until a leaf is ready. *)
SelectsOrBlocks(m, w, root) ==
    /\ \/ /\ ReadyAt(m, w, root) # {}
          /\ complete_ready_wait(m, w, root)
          /\ UNCHANGED <<state, block>>
       \/ /\ ReadyAt(m, w, root) = {}
          /\ state' = [state EXCEPT ![m] = "blocked"]
          /\ block' = [block EXCEPT ![m] = root]
          /\ UNCHANGED <<mail, host_completions, job>>
    /\ UNCHANGED <<inputVars, direct, next_token, wait_services, overlap, orphaned>>

wait(m, t) ==
    /\ \/ Current(m, t) /\ SelectsOrBlocks(m, waits[m], t) /\ UNCHANGED <<waits, next_wait>>
       \/ ~Current(m, t) /\ Faults(m)

any(m, roots) ==
    LET usable == /\ roots # <<>>
                  /\ IsInjective(roots)
                  /\ Len(roots) < max_waits
                  /\ \A i \in DOMAIN roots : Current(m, roots[i])
    IN /\ \/ /\ usable
             /\ Allocates(m, Entry("any", 0, FALSE, roots))
             /\ SelectsOrBlocks(m, waits'[m], next_wait[m])
          \/ (~usable \/ TableFull(m)) /\ Faults(m)

cancel(m, t) ==
    /\ \/ /\ Current(m, t)
          /\ LET scopes == Scopes(waits[m], Leaves(waits[m], t))
             IN /\ job' = [NoJob EXCEPT !.vm = m, !.root = t, !.then = "cancel",
                             !.calls = [i \in DOMAIN scopes |-> Cancel(scopes[i])]]
                /\ host_completions' = [u \in DOMAIN host_completions \ Range(scopes) |->
                                           host_completions[u]]
          /\ UNCHANGED <<inputVars, state, waits, next_wait, block, direct, mail, next_token,
                         wait_services, overlap, orphaned>>
       \/ ~Current(m, t) /\ Faults(m)

(* A message to p, or the end of messages to it; mailboxes here never fill. *)
proc_send(p) ==
    /\ mail' = [mail EXCEPT ![p].queue = IF Terminal(p) \/ mail[p].closed THEN @ ELSE @ + 1]
    /\ UNCHANGED <<inputVars, state, waits, next_wait, block, direct, host_completions,
                   next_token, wait_services, job, overlap, orphaned>>

proc_close(p) ==
    /\ mail' = [mail EXCEPT ![p].closed = @ \/ ~Terminal(p)]
    /\ UNCHANGED <<inputVars, state, waits, next_wait, block, direct, host_completions,
                   next_token, wait_services, job, overlap, orphaned>>

(* The body of the machine returns or panics. *)
Stops(m) ==
    /\ Ends(m, "done", waits[m])
    /\ UNCHANGED <<inputVars, next_wait, direct, host_completions, next_token, wait_services,
                   job, overlap>>

----------------------------------------------------------------------------
(* The host calls of the operation under way.  commit_wait and cancel_wait  *)
(* forget the token first; a token the host does not know is missing.       *)
Answered(found) ==
    job' = [job EXCEPT !.calls = Tail(@), !.ok = @ /\ found]

HostCall ==
    /\ job.calls # <<>>
    /\ call = NoCall
    /\ LET c == Head(job.calls)
       IN /\ wait_services' = wait_services \ {c.token}
          /\ IF c.token \in wait_services
             THEN /\ Ask(IF c.do = "commit" THEN Commit(c.token) ELSE Cancel(c.token))
                  /\ UNCHANGED job
             ELSE Answered(FALSE) /\ UNCHANGED inputVars
    /\ UNCHANGED <<state, waits, next_wait, block, direct, mail, host_completions, next_token,
                   todo, got, lost, slow, overlap, orphaned>>

CallReturns ==
    /\ job.calls # <<>>
    /\ \/ /\ call.answer \in {"found", "missing"}
          /\ Answered(call.answer = "found")
          /\ UNCHANGED slow
       \/ /\ call.answer = "awaited"
          /\ slow' = TRUE
          /\ Answered(FALSE)
    /\ call' = NoCall
    /\ UNCHANGED <<unread, reader, data, commands, pending, retained, buffer, source, phase,
                   pending_count, ready>>
    /\ UNCHANGED <<state, waits, next_wait, block, direct, mail, host_completions, next_token,
                   wait_services, todo, got, lost, overlap, orphaned>>

(* The operation ends: a selection and a cancel retire their tree.  The     *)
(* machine goes on, or faults: a call failed, or the guest has no room for  *)
(* the reply (build_host_reply_value, wrap_wait_choice).                    *)
Retired(m, root) ==
    LET tree == Tree(waits[m], root)
    IN [t \in DOMAIN waits[m] \ tree |-> waits[m][t]]

JobEnds ==
    LET m == job.vm
        good == job.ok /\ job.then \in {"select", "cancel"}
    IN /\ job # NoJob
       /\ job.calls = <<>>
       /\ \/ /\ good
             /\ waits' = [waits EXCEPT ![m] = Retired(m, job.root)]
             /\ state' = [state EXCEPT ![m] = "ready"]
             /\ block' = [block EXCEPT ![m] = 0]
             /\ got' = got \o job.bytes
             /\ UNCHANGED <<mail, lost, orphaned>>
          \/ /\ job.then # "close"
             /\ Ends(m, "faulted", IF job.then = "limit" THEN waits[m] ELSE Retired(m, job.root))
             /\ lost' = [lost EXCEPT ![m] = @ \o job.bytes]
             /\ UNCHANGED got
          \/ /\ job.then = "close"
             /\ waits' = [waits EXCEPT ![m] = <<>>]
             /\ UNCHANGED <<state, block, mail, got, lost, orphaned>>
       /\ job' = NoJob
       /\ slow' = FALSE
       /\ UNCHANGED <<inputVars, next_wait, direct, host_completions, next_token, wait_services,
                      todo, overlap>>

(* close_resources_for_machine cancels what an ended machine still has      *)
(* prepared.  Records of waits that were selected or cancelled before are   *)
(* still there, but the host has forgotten their tokens: those calls change *)
(* nothing and are left out.  Nobody reads the table of an ended machine;   *)
(* JobEnds empties it to say that this is done.                             *)
CloseJob(m) ==
    LET made == next_wait[m] - 1
        tokens == Joined([t \in 1..made |-> IF t \in DOMAIN waits[m] THEN <<t>> ELSE <<>>], made)
        scopes == Scopes(waits[m], tokens)
    IN [NoJob EXCEPT !.vm = m, !.then = "close",
           !.calls = [i \in DOMAIN scopes |-> Cancel(scopes[i])]]

(* finish, when the scheduler next drives the stack of an ended machine.  A *)
(* proc's records are gone by then.                                         *)
finish(m) ==
    /\ job = NoJob
    /\ Terminal(m)
    /\ waits[m] # <<>>
    /\ job' = CloseJob(m)
    /\ UNCHANGED <<inputVars, state, waits, next_wait, block, direct, mail, host_completions,
                   next_token, wait_services, todo, got, lost, slow, overlap, orphaned>>

----------------------------------------------------------------------------
(* A completion still has its request: a machine waits for it, or a live    *)
(* machine has it prepared.                                                 *)
prepared_wait_exists(t) == \E m \in Machines : ~Terminal(m) /\ t \in ScopeSet(waits[m])

Awaits(m) ==
    \/ state[m] = "waiting"
    \/ state[m] = "blocked" /\ Scopes(waits[m], Leaves(waits[m], block[m])) # <<>>

(* poll_host_completion and wait_host_completion: the scheduler asks while  *)
(* a task waits for a completion.  A completion of a prepared read is kept  *)
(* until its machine selects it; one without its request is dropped.        *)
Buffered_IfBlocked(c) ==
    IF \E m \in Machines : state[m] = "blocked" /\ c.token \in ScopeSet(waits[m])
    THEN Insert(host_completions, c.token, c.bytes) ELSE host_completions

Buffered(c) ==
    IF prepared_wait_exists(c.token) THEN Insert(host_completions, c.token, c.bytes)
    ELSE host_completions

TakesCompletion(c) ==
    LET kept == Buffered(c)
    IN /\ job = NoJob
       /\ ready # <<>> /\ c = Head(ready)
       /\ \E m \in Machines : Awaits(m)
       /\ ready' = Tail(ready)
       /\ host_completions' = [t \in {u \in DOMAIN kept : prepared_wait_exists(u)} |-> kept[t]]
       /\ UNCHANGED <<unread, reader, data, commands, pending, retained, buffer, source, phase,
                      pending_count, call>>
       /\ UNCHANGED <<next_wait, next_token, wait_services, todo, slow, overlap>>

Waiter(c) == {m \in Machines : state[m] = "waiting" /\ direct[m] = c.token}

HostCompletes ==
    /\ ready # <<>>
    /\ LET c == Head(ready)
           waiter == Waiter(c)
       IN /\ TakesCompletion(c)
          /\ state' = [m \in Machines |-> IF m \in waiter THEN "ready" ELSE state[m]]
          /\ direct' = [m \in Machines |-> IF m \in waiter THEN 0 ELSE direct[m]]
          /\ got' = IF waiter = {} THEN got ELSE got \o c.bytes
    /\ UNCHANGED <<waits, block, mail, job, lost, orphaned>>

(* install_host_reply: the guest has no room for the reply.  The machine    *)
(* faults, and what it has prepared is cancelled at once.                   *)
ReplyFaults(m) ==
    /\ ready # <<>>
    /\ LET c == Head(ready)
       IN /\ TakesCompletion(c)
          /\ m \in Waiter(c)
          /\ Ends(m, "faulted", waits[m])
          /\ direct' = [direct EXCEPT ![m] = 0]
          /\ lost' = [lost EXCEPT ![m] = @ \o c.bytes]
    /\ job' = IF m \in Procs THEN job ELSE CloseJob(m)
    /\ UNCHANGED got

(* service_wait_slice: the scheduler runs a task parked on a wait of which  *)
(* a leaf is ready.                                                         *)
service_wait_slice(m) ==
    /\ job = NoJob
    /\ state[m] = "blocked"
    /\ ReadyAt(m, waits[m], block[m]) # {}
    /\ complete_ready_wait(m, waits[m], block[m])
    /\ UNCHANGED <<inputVars, state, waits, next_wait, block, direct, next_token, wait_services,
                   todo, got, lost, slow, overlap, orphaned>>

Input == (ReaderReads \/ input_worker) /\ UNCHANGED waitVars

Guest(m) ==
    /\ Acts(m)
    /\ LET op == Head(todo[m])
       IN \/ op.do = "receive_wait" /\ receive_wait(m)
          \/ op.do = "read_wait" /\ (read_wait(m, op.count) \/ read_wait_refused(m))
          \/ op.do = "read_bytes" /\ read_bytes(m, op.count)
          \/ op.do = "choose" /\ choose(m, op.of[1], op.of[2])
          \/ op.do = "any" /\ any(m, op.of)
          \/ op.do = "wait" /\ wait(m, op.of[1])
          \/ op.do = "cancel" /\ cancel(m, op.of[1])
          \/ op.do = "send" /\ proc_send(op.of[1])
          \/ op.do = "close" /\ proc_close(op.of[1])
          \/ op.do = "stop" /\ Stops(m)

World ==
    \/ HostCall \/ CallReturns \/ JobEnds \/ HostCompletes
    \/ \E m \in Machines : finish(m) \/ service_wait_slice(m) \/ ReplyFaults(m)

Next ==
    \/ Input
    \/ World
    \/ \E m \in Machines : Guest(m)

Spec == Init /\ [][Next]_vars

(* The threads of the input service run while they have work, and standard  *)
(* input delivers, ends or fails.  The thread of the world goes on with the *)
(* operation under way, with completions and with ready tasks; what a       *)
(* program may do of these is bounded, so none holds up another for ever.   *)
(* Guests owe nothing.                                                      *)
FairSpec ==
    /\ Spec
    /\ WF_vars(ReaderReads /\ UNCHANGED waitVars)
    /\ WF_vars(input_worker /\ UNCHANGED waitVars)
    /\ WF_vars(World)

----------------------------------------------------------------------------
(* Every variable has the kind of value the code gives it. *)
TypeOK ==
    /\ state \in [Machines -> {"ready", "blocked", "waiting", "done", "faulted"}]
    /\ \A m \in Machines :
         /\ DOMAIN waits[m] \subseteq 1..(next_wait[m] - 1)
         /\ Cardinality(DOMAIN waits[m]) <= max_waits
         /\ state[m] = "blocked" <=> block[m] # 0
         /\ state[m] = "waiting" <=> direct[m] # 0
    /\ wait_services \subseteq 1..(next_token - 1)
    /\ DOMAIN host_completions \subseteq 1..(next_token - 1)
    /\ mail \in [Procs -> [queue : Nat, closed : BOOLEAN]]
    /\ reader \in {"none", "reading", "ended"}
    /\ source \in {"open", "eof", "failed"}
    /\ phase \in {"commands", "data", "answer", "release"}
    /\ pending_count \in 0..MAX_PENDING_IO

(* An entry's children are older entries of the same table, each linked     *)
(* entry is the child of exactly one other, and no unlinked one is a child. *)
Forest(w) ==
    \A t \in DOMAIN w :
        /\ \A i \in DOMAIN w[t].kids : w[t].kids[i] \in DOMAIN w /\ w[t].kids[i] < t
        /\ IsInjective(w[t].kids)
        /\ w[t].linked <=> \E u \in DOMAIN w : t \in Range(w[u].kids)
        /\ \A u, v \in DOMAIN w : t \in Range(w[u].kids) /\ t \in Range(w[v].kids) => u = v

(* Every table of waits (allocate_wait, allocate_internal_wait and          *)
(* retire_wait_tree maintain it) is a forest whose roots are the tokens the *)
(* guest may still use, and a machine blocks on a root.  So the walk of     *)
(* wait_tree never meets a token twice or a missing one, and its            *)
(* MalformedState answers are never given.                                  *)
WaitTreeWellFormed ==
    \A m \in Machines : Forest(waits[m]) /\ (block[m] # 0 => Current(m, block[m]))

(* Where a guest can still get the bytes, or has got them: the stream, the  *)
(* worker's buffer, a retained answer that may still be cancelled, the      *)
(* answer of a direct read, the selection under way, or a guest.            *)
Committing == {c.token : c \in {d \in Range(commands) \cup Range(job.calls) : d.do = "commit"}}

Flat(f) == FoldFunction(\o, <<>>, f)

AllBytes ==
    unread \o Flat([i \in DOMAIN data |-> data[i].bytes]) \o buffer
    \o Flat([t \in DOMAIN retained \ (Committing \cup orphaned) |-> retained[t]])
    \o Flat([i \in {j \in DOMAIN ready : \E m \in Machines : direct[m] = ready[j].token} |->
                ready[i].bytes])
    \o job.bytes \o got

(* compact_terminal_proc dropped the record of the read, so nobody cancels  *)
(* it and its answer is never given back.                                   *)
Stranded == Flat([t \in DOMAIN retained \cap orphaned |-> retained[t]])

(* No byte of standard input is duplicated, and none disappears from under  *)
(* a guest that goes on: each byte is in exactly one of those places, or it *)
(* answers a read that a proc had prepared when it ended, or it was taken   *)
(* for a machine that faulted on it, after a call passed its deadline or    *)
(* for want of room.                                                        *)
BytesConserved ==
    /\ Len(AllBytes) + Len(Stranded) + Len(Flat(lost)) = Len(Stream)
    /\ Range(AllBytes) \cup Range(Stranded) \cup Range(Flat(lost)) = Range(Stream)
    /\ \A m \in Machines : lost[m] # <<>> => state[m] = "faulted"

(* While no two reads are outstanding at once, guests get the bytes in the  *)
(* order of the stream, also when prepared reads were answered and then     *)
(* cancelled: a cancelled read puts its bytes back in their place.          *)
OrderKept ==
    ~overlap => \A i, j \in DOMAIN got : i < j => got[i] < got[j]

(* The three tables of prepared waits agree.  The tokens the host knows are *)
(* those the input service holds a read for, and they are the tokens of the *)
(* waits in the machines' tables, the tokens the operation under way is     *)
(* about to call for, and those left by a proc that ended.                  *)
HeldByService ==
    {c.token : c \in {d \in Range(commands) : d.do = "request" /\ d.wait_source}}
    \cup {r.token : r \in {q \in Range(pending) : q.wait_source}}
    \cup DOMAIN retained

Told == {c.token : c \in {d \in Range(commands) : d.do # "request"}}

InTables ==
    UNION {LET gone == IF job.vm = m /\ job.root # 0 THEN Tree(waits[m], job.root) ELSE {}
           IN {waits[m][t].scope : t \in DOMAIN waits[m] \ gone} \ {0} : m \in Machines}

TokensAgree ==
    /\ wait_services = HeldByService \ Told
    /\ job.then # "close" =>
         wait_services = InTables \cup orphaned
                         \cup ({c.token : c \in Range(job.calls)} \ {call.token})

(* A call to the host for a selection or a cancel fails only when one of    *)
(* its calls passed its deadline: the host always knows the source that the *)
(* guest selects or cancels.  (The guest may still have no room for the     *)
(* reply, which the host has no part in.)                                   *)
FailsOnlyLate == job.then \in {"select", "cancel"} /\ ~job.ok => slow

(* The count of requests in service is exact: it holds no request that was  *)
(* answered or cancelled, so the queue does not fill up for good.           *)
PendingExact ==
    pending_count = Cardinality({i \in DOMAIN commands : commands[i].do = "request"})
                    + Len(pending) + (IF phase = "release" THEN 1 ELSE 0)

(* A machine that waits for standard input, directly or through a wait that *)
(* has a read among its sources, is answered.                               *)
ReadEnds == \A m \in Machines : []<>~Awaits(m)
=============================================================================
