--------------------------- MODULE WaitInvariant ---------------------------
(* What holds in every state of WaitSet besides the properties: the kinds of *)
(* values, and the inductive invariants WInv of the tables of waits, SInv of *)
(* the input service, and TInv of both together.                             *)
EXTENDS WaitSet

States == {"ready", "blocked", "waiting", "done", "faulted"}
Entries == [kind : {"receive", "read", "choice", "any"}, scope : Nat, ready : BOOLEAN,
            kids : Seq(Nat), linked : BOOLEAN]
Tables == UNION {[D -> Entries] : D \in SUBSET Nat}

(* The invariant that is inductive.  Besides the forest it says that a       *)
(* blocked machine waits for a root, so that no other operation of it can    *)
(* take the root away; that the operation under way is about a root of its   *)
(* machine, which therefore retires a whole tree; and that a machine whose   *)
(* resources are being closed has ended.                                     *)
WTypes ==
    /\ waits \in [Machines -> Tables]
    /\ next_wait \in [Machines -> Nat \ {0}]
    /\ next_token \in Nat
    /\ state \in [Machines -> States]
    /\ block \in [Machines -> Nat]
    /\ todo \in [Machines -> Seq(Operations)]

GoodTable(m) ==
    /\ DOMAIN waits[m] \subseteq 1..(next_wait[m] - 1)
    /\ Forest(waits[m])
    /\ state[m] = "blocked" <=> block[m] # 0
    /\ block[m] # 0 => Current(m, block[m])

GoodJob ==
    /\ DOMAIN job = {"vm", "root", "calls", "then", "ok", "bytes"}
    /\ \/ job = NoJob
       \/ job.vm \in Machines /\ job.then \in {"select", "cancel", "limit", "close"}
    /\ job.then \in {"select", "cancel"} => Current(job.vm, job.root)
    /\ job.then = "close" => Terminal(job.vm)

WInv == WTypes /\ (\A m \in Machines : GoodTable(m)) /\ GoodJob

----------------------------------------------------------------------------
(* The input service. *)
Commands == [do : {"request"}, token : Nat, count : Nat, wait_source : BOOLEAN]
            \cup [do : {"commit", "cancel"}, token : Nat]
Reads == [token : Nat, count : Nat, wait_source : BOOLEAN]
Chunks == [kind : {"bytes", "eof", "failed"}, bytes : Seq(Nat)]

ServiceTypes ==
    /\ unread \in Seq(Nat)
    /\ data \in Seq(Chunks)
    /\ commands \in Seq(Commands)
    /\ pending \in Seq(Reads)
    /\ reader \in {"none", "reading", "ended"}
    /\ source \in {"open", "eof", "failed"}
    /\ phase \in {"commands", "data", "answer", "release"}
    /\ pending_count \in 0..MAX_PENDING_IO

SInv == ServiceTypes /\ PendingExact

----------------------------------------------------------------------------
(* The tables, the tokens and the mailboxes. *)
Mailboxes == [queue : Nat, closed : BOOLEAN]

(* Tokens come from next_token; a table has room, and its reads have tokens  *)
(* that were given out.                                                      *)
TokenTypes ==
    /\ next_token \in Nat \ {0}
    /\ wait_services \subseteq 1..(next_token - 1)
    /\ DOMAIN host_completions \subseteq 1..(next_token - 1)

Roomy(m) ==
    /\ Cardinality(DOMAIN waits[m]) <= max_waits
    /\ \A t \in DOMAIN waits[m] : waits[m][t].scope < next_token

(* Who waits for a direct read, and that the operation under way is not      *)
(* theirs.                                                                   *)
Waiting ==
    /\ direct \in [Machines -> Nat]
    /\ \A m \in Machines : state[m] = "waiting" <=> direct[m] # 0
    /\ job # NoJob => state[job.vm] # "waiting"

TInv ==
    /\ WInv /\ SInv /\ TokenTypes /\ Waiting
    /\ \A m \in Machines : Roomy(m)
    /\ mail \in [Procs -> Mailboxes]
============================================================================
