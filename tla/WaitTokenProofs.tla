-------------------------- MODULE WaitTokenProofs --------------------------
(* The tokens of the reads, for every set of machines, every program, every  *)
(* limit and every stream of input: the guest's tables, the host's set of    *)
(* sources and the input service always agree on which reads are alive, and  *)
(* a selection or a cancel therefore fails only past a deadline.  The        *)
(* invariant is KInv.                                                        *)
EXTENDS WaitSetProofs, WaitLemmas

(* A step that leaves the tables and the tokens alone. *)
LEMMA StaysStep ==
  ASSUME KInv, job = NoJob, UNCHANGED <<inputVars, wait_services, job, host_completions, waits, orphaned>>,
         next_token' \in {next_token, next_token + 1}
  PROVE  DInv'
<1>1. Sound(waits', orphaned')
  <2>1. Sound(waits, orphaned)
    BY Zenon DEF KInv, DInv
  <2> QED BY <2>1, Zenon
<1>2. wait_services = Every(waits') \cup orphaned'
  BY IdleFacts, Zenon
<1>3. DOMAIN host_completions' \subseteq DOMAIN host_completions
  BY Zenon
<1> QED BY <1>1, <1>2, <1>3, QuietStep, ZenonT(30)

(* The next token is in no table. *)
LEMMA FreshToken ==
  ASSUME KInv, job = NoJob
  PROVE  /\ next_token \in Nat \ {0} /\ next_token \notin Every(waits) /\ next_token \notin orphaned
         /\ next_token \notin Every(waits) \cup orphaned
<1>1. /\ next_token \in Nat \ {0} /\ wait_services \subseteq 1..(next_token - 1)
  BY Zenon DEF KInv, TInv, TokenTypes
<1>2. next_token \notin wait_services
  BY <1>1, SMTT(30)
<1> QED BY <1>1, <1>2, IdleFacts, Zenon

(* read_wait: the read is sent under the next token, and its entry is made;  *)
(* if there is no room for it the read is cancelled at once.                 *)
LEMMA ReadWaitStep ==
  ASSUME KInv, NEW m \in Machines, Acts(m), NEW n \in Nat, read_wait(m, n)
  PROVE  DInv'
<1> DEFINE t == next_token
           e == Entry("read", t, FALSE, <<>>)
<1>1. /\ job = NoJob /\ TInv /\ SInv /\ CInv /\ Asked /\ WInv /\ Sound(waits, orphaned)
      /\ slow' = slow
  BY Zenon DEF Acts, KInv, DInv, TInv
<1>2. /\ t \in Nat \ {0} /\ t \notin Every(waits) /\ t \notin orphaned
      /\ t \notin Every(waits) \cup orphaned
  BY <1>1, FreshToken, Zenon
<1>3. /\ submit_stream(t, n, TRUE) /\ next_token' = t + 1
      /\ wait_services' = wait_services \cup {t}
      /\ UNCHANGED <<host_completions, orphaned>>
  BY Zenon DEF read_wait, Starts
<1>4. UNCHANGED call
  BY <1>3, Zenon DEF submit_stream
<1>5. /\ wait_services = Every(waits) \cup orphaned /\ call.token = 0 /\ job.calls = <<>>
      /\ Calls = {}
  BY <1>1, IdleFacts, Zenon
<1>6. Asked'
  BY <1>1, <1>4, <1>5, AskedStays, Zenon
<1>7. ASSUME Calls' = {} PROVE CInv'
  <2>1. wait_services' = wait_services \cup (IF TRUE THEN {next_token} ELSE {})
    BY <1>3, Zenon
  <2>2. Calls' \subseteq Calls
    BY <1>7, Zenon
  <2>3. TRUE \in BOOLEAN
    BY Zenon
  <2> QED BY <1>1, <1>2, <1>3, <2>1, <2>2, <2>3, SubmitChannel, Zenon
<1>8. CASE Allocates(m, e) /\ UNCHANGED job
  <2>1. Shape(e) /\ e.scope = t
    BY Shapes, Zenon
  <2> HIDE DEF e
  <2>2. e.scope # 0 => e.scope \notin Every(waits) /\ e.scope \notin orphaned
    BY <1>2, <2>1, Zenon
  <2>3. Sound(waits', orphaned) /\ Every(waits') = Every(waits) \cup ({e.scope} \ {0})
    BY <1>1, <1>8, <2>1, <2>2, AllocTables, Zenon
  <2>4. wait_services' = Every(waits') \cup orphaned'
    BY <1>2, <1>3, <1>5, <2>1, <2>3, Zenon
  <2>5. JobSound(NoJob, waits', orphaned', wait_services', call'.token, slow')
    BY <2>4, IdleSound, Zenon
  <2>6. job' = NoJob /\ Calls' = {}
    BY <1>1, <1>5, <1>8, Zenon DEF Calls
  <2>7. Sound(waits', orphaned')
    BY <1>3, <2>3, Zenon
  <2> QED BY <1>6, <1>7, <2>5, <2>6, <2>7, Zenon DEF DInv
<1>9. CASE job' = LimitJob(m, t) /\ UNCHANGED waits
  <2>1. PICK S, late : S = Every(waits) \cup orphaned \cup {t} /\ late = slow
    BY Zenon
  <2>2. JobSound(LimitJob(m, t), waits, orphaned, S, 0, late) /\ Commits(LimitJob(m, t).calls) = {}
    BY <1>2, <2>1, LimitSound, Zenon
  <2>3. Calls' = {}
    BY <1>9, <2>2, Zenon DEF Calls
  <2>4. S = wait_services' /\ call'.token = 0
    BY <1>3, <1>4, <1>5, <2>1, Zenon
  <2>5. JobSound(job', waits', orphaned', wait_services', call'.token, slow')
    BY <1>1, <1>3, <1>9, <2>1, <2>2, <2>4, Zenon
  <2>6. Sound(waits', orphaned')
    BY <1>1, <1>3, <1>9, Zenon
  <2> QED BY <1>6, <1>7, <2>3, <2>5, <2>6, Zenon DEF DInv
<1> QED BY <1>8, <1>9, Zenon DEF read_wait

(* read_bytes. *)
LEMMA ReadStep ==
  ASSUME KInv, NEW m \in Machines, Acts(m), NEW n \in Nat, read_bytes(m, n)
  PROVE  DInv'
<1>1. /\ job = NoJob /\ TInv /\ SInv /\ CInv /\ Asked /\ Sound(waits, orphaned)
  BY Zenon DEF Acts, KInv, DInv, TInv
<1>2. UNCHANGED <<waits, wait_services, job, host_completions, orphaned>>
  BY Zenon DEF read_bytes
<1>3. CASE UNCHANGED inputVars /\ next_token' = next_token + 1
  BY <1>1, <1>2, <1>3, StaysStep, Zenon
<1>4. CASE Starts(next_token, n, FALSE)
  <2>1. /\ submit_stream(next_token, n, FALSE) /\ next_token' = next_token + 1
        /\ next_token \in Nat \ {0} /\ FALSE \in BOOLEAN
    BY <1>1, <1>4, FreshToken, Zenon DEF Starts
  <2>2. UNCHANGED call
    BY <2>1, Zenon DEF submit_stream
  <2>3. wait_services' = wait_services \cup (IF FALSE THEN {next_token} ELSE {})
    BY <1>2, Zenon
  <2>4. Calls' \subseteq Calls
    BY <1>2, Zenon DEF Calls
  <2>5. CInv'
    BY <1>1, <1>2, <2>1, <2>3, <2>4, SubmitChannel, Zenon
  <2>6. Asked'
    BY <1>1, <1>2, <2>2, AskedStays, Zenon
  <2>7. wait_services' = Every(waits') \cup orphaned'
    BY <1>1, <1>2, IdleFacts, Zenon
  <2>8. JobSound(NoJob, waits', orphaned', wait_services', call'.token, slow')
    BY <2>7, IdleSound, Zenon
  <2>9. Sound(waits', orphaned') /\ job' = NoJob
    BY <1>1, <1>2, Zenon
  <2> QED BY <2>5, <2>6, <2>8, <2>9, Zenon DEF DInv
<1> QED BY <1>3, <1>4, Zenon DEF read_bytes

----------------------------------------------------------------------------
(* The operations that only make an entry. *)
LEMMA EntrySteps ==
  ASSUME KInv, NEW m \in Machines, Acts(m), NEW a, NEW b,
         receive_wait(m) \/ read_wait_refused(m) \/ choose(m, a, b)
  PROVE  DInv'
<1>0. job = NoJob
  BY Zenon DEF Acts
<1>1. CASE Faults(m)
  BY <1>1, FaultsStep, Zenon
<1>2. CASE /\ Allocates(m, Entry("receive", 0, FALSE, <<>>))
           /\ UNCHANGED <<inputVars, wait_services, job, host_completions, orphaned, next_token>>
  <2>1. next_token' \in {next_token, next_token + 1}
    BY <1>2, Zenon
  <2>2. PICK e : e = Entry("receive", 0, FALSE, <<>>)
    BY Zenon
  <2>3. Shape(e) /\ e.scope = 0
    BY <2>2, Shapes, Zenon
  <2> QED BY <1>0, <1>2, <2>1, <2>2, <2>3, PlainStep, Zenon
<1>3. CASE /\ Allocates(m, Entry("choice", 0, FALSE, <<a, b>>))
           /\ UNCHANGED <<inputVars, wait_services, job, host_completions, orphaned, next_token>>
  <2>1. next_token' \in {next_token, next_token + 1}
    BY <1>3, Zenon
  <2>2. PICK e : e = Entry("choice", 0, FALSE, <<a, b>>)
    BY Zenon
  <2>3. Shape(e) /\ e.scope = 0
    BY <2>2, Shapes, ZenonT(30)
  <2> QED BY <1>0, <1>3, <2>1, <2>2, <2>3, PlainStep, Zenon
<1>4. CASE read_wait_refused(m)
  <2>1. /\ next_token' \in {next_token, next_token + 1}
        /\ UNCHANGED <<inputVars, wait_services, job, host_completions>>
    BY <1>4, Zenon DEF read_wait_refused
  <2>2. CASE Allocates(m, Entry("read", 0, TRUE, <<>>)) /\ UNCHANGED orphaned
    <3>2. PICK e : e = Entry("read", 0, TRUE, <<>>)
      BY Zenon
    <3>3. Shape(e) /\ e.scope = 0
      BY <3>2, Shapes, Zenon
    <3> QED BY <1>0, <2>1, <2>2, <3>2, <3>3, PlainStep, Zenon
  <2>3. CASE Ends(m, "faulted", waits[m])
    BY <1>0, <2>1, <2>3, EndsStep, Zenon
  <2> QED BY <1>4, <2>2, <2>3, Zenon DEF read_wait_refused
<1>5. receive_wait(m) => \/ Faults(m)
                         \/ /\ Allocates(m, Entry("receive", 0, FALSE, <<>>))
                            /\ UNCHANGED <<inputVars, wait_services, job, host_completions, orphaned, next_token>>
  BY Zenon DEF receive_wait
<1>6. choose(m, a, b) => \/ Faults(m)
                         \/ /\ Allocates(m, Entry("choice", 0, FALSE, <<a, b>>))
                            /\ UNCHANGED <<inputVars, wait_services, job, host_completions, orphaned, next_token>>
  BY Zenon DEF choose
<1> QED BY <1>1, <1>2, <1>3, <1>4, <1>5, <1>6, Zenon

(* A wait that is ready is selected, and else the machine blocks. *)
LEMMA SelectsStep ==
  ASSUME KInv, job = NoJob, WInv', NEW m \in Machines,
         Sound(waits', orphaned'), wait_services = Every(waits') \cup orphaned',
         NEW w, w = waits'[m], NEW root \in DOMAIN w, SelectsOrBlocks(m, w, root)
  PROVE  DInv'
<1>1. UNCHANGED <<inputVars, wait_services>> /\ next_token' = next_token
  BY Zenon DEF SelectsOrBlocks
<1>2. CASE ReadyAt(m, w, root) # {} /\ complete_ready_wait(m, w, root)
  BY <1>1, <1>2, SelectStarts, SMTT(30)
<1>3. CASE UNCHANGED <<host_completions, job>>
  <2>1. next_token' \in {next_token, next_token + 1} /\ DOMAIN host_completions' \subseteq DOMAIN host_completions
    BY <1>1, <1>3, Zenon
  <2> QED BY <1>1, <1>3, <2>1, QuietStep, Zenon
<1> QED BY <1>2, <1>3, Zenon DEF SelectsOrBlocks

(* wait. *)
LEMMA WaitStep ==
  ASSUME KInv, NEW m \in Machines, Acts(m), WInv', NEW t, wait(m, t)
  PROVE  DInv'
<1>1. CASE Faults(m)
  BY <1>1, FaultsStep, Zenon
<1>2. CASE Current(m, t) /\ SelectsOrBlocks(m, waits[m], t) /\ UNCHANGED waits
  <2>1. job = NoJob /\ orphaned' = orphaned /\ Sound(waits, orphaned)
    BY <1>2, Zenon DEF Acts, SelectsOrBlocks, KInv, DInv
  <2>2. Sound(waits', orphaned') /\ wait_services = Every(waits') \cup orphaned'
    BY <1>2, <2>1, IdleFacts, Zenon
  <2>3. PICK w : w = waits[m]
    BY Zenon
  <2>4. w = waits'[m] /\ t \in DOMAIN w /\ SelectsOrBlocks(m, w, t)
    BY <1>2, <2>3, Zenon DEF Current
  <2> QED BY <2>1, <2>2, <2>4, SelectsStep, SMTT(30)
<1> QED BY <1>1, <1>2, Zenon DEF wait

(* any. *)
LEMMA AnyStep ==
  ASSUME KInv, NEW m \in Machines, Acts(m), WInv', NEW roots, any(m, roots)
  PROVE  DInv'
<1>1. CASE Faults(m)
  BY <1>1, FaultsStep, Zenon
<1>2. CASE /\ Allocates(m, Entry("any", 0, FALSE, roots))
           /\ SelectsOrBlocks(m, waits'[m], next_wait[m])
  <2>1. job = NoJob /\ orphaned' = orphaned /\ waits \in [Machines -> Tables]
    BY <1>2, ZenonT(30) DEF Acts, SelectsOrBlocks, KInv, TInv, WInv, WTypes
  <2>2. PICK e : e = Entry("any", 0, FALSE, roots)
    BY Zenon
  <2>3. Shape(e) /\ e.scope = 0 /\ Allocates(m, e)
    BY <1>2, <2>2, Shapes, ZenonT(30)
  <2>4. Sound(waits', orphaned') /\ wait_services = Every(waits') \cup orphaned'
    BY <2>1, <2>3, PlainTables, ZenonT(30)
  <2>5. PICK w, r : w = waits'[m] /\ r = next_wait[m]
    BY Zenon
  <2>6. w = WithWait(m, e)
    BY <2>1, <2>3, <2>5, Zenon DEF Allocates
  <2>7. r \in DOMAIN w
    BY <2>5, <2>6, Zenon DEF WithWait
  <2>8. SelectsOrBlocks(m, w, r)
    BY <1>2, <2>5, Zenon
  <2> QED BY <2>1, <2>4, <2>5, <2>7, <2>8, SelectsStep, SMTT(30)
<1> QED BY <1>1, <1>2, Zenon DEF any

(* cancel. *)
LEMMA CancelStep ==
  ASSUME KInv, NEW m \in Machines, Acts(m), NEW t, cancel(m, t)
  PROVE  DInv'
<1> DEFINE s == Scopes(waits[m], Leaves(waits[m], t))
           q == [i \in DOMAIN s |-> Cancel(s[i])]
<1>1. CASE Faults(m)
  BY <1>1, FaultsStep, Zenon
<1>2. CASE /\ Current(m, t)
           /\ job' = [NoJob EXCEPT !.vm = m, !.root = t, !.then = "cancel", !.calls = q]
           /\ host_completions' = [u \in DOMAIN host_completions \ Range(s) |-> host_completions[u]]
           /\ UNCHANGED <<inputVars, waits, next_token, wait_services, orphaned>>
  <2>1. job = NoJob /\ Sound(waits, orphaned) /\ WInv
    BY Zenon DEF Acts, KInv, TInv, DInv
  <2>2. PICK n : n = next_wait[m] - 1
    BY Zenon
  <2>3. /\ n \in Nat /\ waits[m] \in Tables /\ Forest(waits[m]) /\ DOMAIN waits[m] \subseteq 1..n
        /\ t \in DOMAIN waits[m]
    <3>1. waits[m] \in Tables /\ Forest(waits[m]) /\ next_wait[m] \in Nat \ {0} /\ t \in DOMAIN waits[m]
          /\ DOMAIN waits[m] \subseteq 1..(next_wait[m] - 1)
      BY <1>2, <2>1, ZenonT(30) DEF WInv, WTypes, GoodTable, Current
    <3>2. n \in Nat
      BY <2>2, <3>1, SMTT(30)
    <3> QED BY <2>2, <3>1, <3>2, Zenon
  <2>4. PICK b : b = job'
    BY Zenon
  <2>5. b.calls = q /\ b.vm = m /\ b.root = t /\ b.then = "cancel" /\ b.ok
    <3> HIDE DEF q
    <3> QED BY <1>2, <2>4, Zenon DEF NoJob
  <2>6. /\ b.vm = m /\ b.root = t /\ b.then = "cancel" /\ b.ok
        /\ b.calls = CancelsOf(waits[m], Leaves(waits[m], t))
    BY <2>5, ZenonT(30) DEF CancelsOf
  <2>7. JobSound(b, waits, orphaned, Every(waits) \cup orphaned, 0, slow')
    BY <2>1, <2>3, <2>6, CancelSound, ZenonT(30)
  <2>8. Commits(b.calls) = {}
    BY <2>1, <2>3, <2>6, CancelSound, Zenon
  <2>9. Calls' = {} /\ DOMAIN host_completions' \subseteq DOMAIN host_completions
    <3>1. DOMAIN host_completions' \subseteq DOMAIN host_completions
      BY <1>2, ZenonT(30)
    <3>2. Calls' = {}
      BY <2>4, <2>8, Zenon DEF Calls
    <3> QED BY <3>1, <3>2, Zenon
  <2>10. CInv' /\ Asked'
    <3>1. Calls' \subseteq DOMAIN host_completions /\ next_token' \in {next_token, next_token + 1}
      BY <1>2, <2>9, Zenon
    <3> QED BY <1>2, <2>1, <2>9, <3>1, QuietChannel, Zenon
  <2>11. /\ wait_services' = Every(waits) \cup orphaned /\ call'.token = 0
         /\ waits' = waits /\ orphaned' = orphaned
    BY <1>2, <2>1, IdleFacts, ZenonT(30) DEF inputVars
  <2>12. JobSound(job', waits', orphaned', wait_services', call'.token, slow')
    BY <2>4, <2>7, <2>11, Zenon
  <2>13. Sound(waits', orphaned')
    BY <2>1, <2>11, ZenonT(30)
  <2> QED BY <2>10, <2>12, <2>13, ZenonT(30) DEF DInv
<1> QED BY <1>1, <1>2, ZenonT(30) DEF cancel

(* A message or a close for a mailbox. *)
LEMMA MailStep ==
  ASSUME KInv, NEW m \in Machines, Acts(m), NEW p, proc_send(p) \/ proc_close(p)
  PROVE  DInv'
<1>1. /\ job = NoJob
      /\ UNCHANGED <<inputVars, wait_services, job, host_completions, waits, orphaned>>
      /\ next_token' \in {next_token, next_token + 1}
  BY Zenon DEF Acts, proc_send, proc_close
<1> QED BY <1>1, StaysStep, Zenon

(* The operations of the guest. *)
LEMMA GuestStep == ASSUME KInv, NEW m \in Machines, Guest(m), WInv' PROVE DInv'
<1> DEFINE op == Head(todo[m])
<1>1. Acts(m)
  BY Zenon DEF Guest
<1>2. op.count \in Nat
  BY <1>1, GuestFacts, ActsFacts, Zenon DEF Operations, KInv
<1>3. \/ receive_wait(m)
      \/ read_wait(m, op.count) \/ read_wait_refused(m) \/ read_bytes(m, op.count)
      \/ choose(m, op.of[1], op.of[2]) \/ any(m, op.of) \/ wait(m, op.of[1])
      \/ cancel(m, op.of[1]) \/ proc_send(op.of[1]) \/ proc_close(op.of[1]) \/ Stops(m)
  BY Zenon DEF Guest
<1> HIDE DEF op
<1> QED BY <1>1, <1>2, <1>3, EntrySteps, ReadWaitStep, ReadStep, AnyStep, WaitStep, CancelStep,
           MailStep, FaultsStep, Zenon

----------------------------------------------------------------------------
(* The first call of an operation, and those that remain. *)
LEMMA FirstCall ==
  ASSUME NEW q, GoodCalls(q), q # <<>>
  PROVE  /\ Head(q) \in Tells /\ Head(q) \in Range(q) /\ Head(q).token \in Tokens(q)
         /\ GoodCalls(Tail(q)) /\ Tokens(Tail(q)) = Tokens(q) \ {Head(q).token}
         /\ Commits(Tail(q)) \subseteq Commits(q)
<1> DEFINE t == Tail(q)
           h == Head(q)
<1>1. q \in Seq(Tells) /\ Distinct(q)
  BY Zenon DEF GoodCalls, Distinct
<1>2. h \in Tells /\ t \in Seq(Tells) /\ Range(q) = Range(t) \cup {h}
  BY <1>1, RangeHead, Zenon
<1>3. Distinct(t) /\ h.token \notin Tok(Range(t))
  BY <1>1, DistinctTail, Zenon
<1> HIDE DEF t, h
<1>4. GoodCalls(t)
  BY <1>2, <1>3, Zenon DEF GoodCalls, Distinct
<1>5. h.token \notin Tokens(t)
  BY <1>3, Zenon DEF Tok, Tokens
<1>6. Tokens(q) = Tokens(t) \cup {h.token}
  BY <1>2, Zenon DEF Tokens
<1>7. Commits(t) \subseteq Commits(q)
  BY <1>2, Zenon DEF Commits
<1> QED BY <1>2, <1>4, <1>5, <1>6, <1>7, Zenon DEF t, h

(* The host sends the next call of the operation and forgets its token. *)
LEMMA CallStep == ASSUME KInv, HostCall PROVE DInv'
<1> DEFINE c == Head(job.calls)
           d == IF c.do = "commit" THEN Commit(c.token) ELSE Cancel(c.token)
<1>1. /\ TInv /\ SInv /\ CInv /\ Asked /\ Sound(waits, orphaned) /\ GoodCalls(job.calls)
      /\ job.calls # <<>> /\ call = NoCall
  BY Zenon DEF KInv, TInv, DInv, JobSound, HostCall
<1>2. c \in Tells /\ c \in Range(job.calls) /\ c.token \in Tokens(job.calls)
  BY <1>1, FirstCall, Zenon
<1>3. call.token = 0 /\ 0 \notin Tokens(job.calls)
  BY <1>1, ZeroIsNoToken, Zenon DEF NoCall
<1>4. PICK K : K = Kept(waits, job.vm, Gone(job, waits))
  BY Zenon
<1>5. /\ Tokens(job.calls) \cap (K \cup orphaned) = {}
      /\ wait_services = K \cup orphaned \cup (Tokens(job.calls) \ {call.token})
      /\ job.ok \/ slow
      /\ job.root # 0 <=> job.then \in {"select", "cancel"}
  BY <1>4, Zenon DEF KInv, DInv, JobSound
<1>6. c.token \in wait_services
  BY <1>2, <1>3, <1>5, Zenon
<1>7. /\ Ask(d) /\ wait_services' = wait_services \ {c.token}
      /\ UNCHANGED <<host_completions, job, next_token, waits, orphaned, slow>>
  BY <1>6, Zenon DEF HostCall
<1> HIDE DEF c
<1>8. d.token = c.token /\ d.do # "request" /\ (d.do = "commit" => c.do = "commit")
  BY Zenon DEF Commit, Cancel
<1>9. d \in Commands
  BY <1>2, SMTT(30) DEF Commit, Cancel, Commands, Tells
<1> HIDE DEF d
<1>10. d.do = "commit" => d.token \in Calls
  BY <1>2, <1>8, ZenonT(30) DEF Calls, Commits
<1>11. CInv'
  <2>1. d.token \in wait_services /\ wait_services' = wait_services \ {d.token}
    BY <1>6, <1>7, <1>8, Zenon
  <2> QED BY <1>1, <1>7, <1>8, <1>9, <1>10, <2>1, AskChannel, SMTT(30)
<1>12. call' = [token |-> c.token, answer |-> "awaited"]
  BY <1>7, <1>8, Zenon DEF Ask
<1>13. c.token \in Nat /\ c.token # 0
  BY <1>2, <1>3, Zenon DEF Tells
<1>14. Asked'
  <2>1. /\ call'.token = c.token /\ call'.answer = "awaited"
        /\ call' \in [token : Nat, answer : {"none", "awaited", "found"}]
    BY <1>12, <1>13, Zenon
  <2>2. job' = job /\ c = Head(job.calls)
    BY <1>7, Zenon DEF c
  <2> QED BY <1>1, <1>13, <2>1, <2>2, Zenon DEF Asked
<1>15. JobSound(job', waits', orphaned', wait_services', call'.token, slow')
  <2>1. wait_services' = K \cup orphaned \cup (Tokens(job.calls) \ {c.token})
    BY <1>2, <1>3, <1>5, <1>7, Zenon
  <2>2. JobSound(job, waits, orphaned, wait_services', c.token, slow)
    BY <1>1, <1>4, <1>5, <2>1, Zenon DEF JobSound
  <2> QED BY <1>7, <1>12, <2>2, Zenon
<1>16. Sound(waits', orphaned')
  BY <1>1, <1>7, Zenon
<1> QED BY <1>11, <1>14, <1>15, <1>16, Zenon DEF DInv

(* The call returns: the service found the token, as Asked says, so the      *)
(* operation goes on.                                                        *)
LEMMA ReturnStep == ASSUME KInv, CallReturns PROVE DInv'
<1>1. /\ TInv /\ CInv /\ Asked /\ Sound(waits, orphaned) /\ GoodCalls(job.calls)
      /\ job.calls # <<>> /\ call' = NoCall /\ GoodJob
      /\ call.answer \in {"found", "awaited"}
      /\ UNCHANGED <<commands, pending, retained, ready, waits, orphaned, wait_services,
                     host_completions, next_token>>
  BY Zenon DEF KInv, TInv, WInv, DInv, JobSound, CallReturns, Asked
<1>2. /\ GoodCalls(Tail(job.calls))
      /\ Tokens(Tail(job.calls)) = Tokens(job.calls) \ {Head(job.calls).token}
      /\ Commits(Tail(job.calls)) \subseteq Commits(job.calls)
  BY <1>1, FirstCall, Zenon
<1>3. call.token # 0 /\ call.token = Head(job.calls).token
  BY <1>1, Zenon DEF Asked
<1>4. PICK f \in BOOLEAN : /\ job' = [job EXCEPT !.calls = Tail(job.calls), !.ok = @ /\ f]
                           /\ f \/ slow'
                           /\ slow => slow'
  <2>1. CASE call.answer = "found"
    <3>1. job' = [job EXCEPT !.calls = Tail(job.calls), !.ok = @ /\ TRUE] /\ slow' = slow
      BY <2>1, Zenon DEF CallReturns, Answered
    <3> QED BY <3>1, Zenon
  <2>2. CASE call.answer = "awaited"
    <3>1. job' = [job EXCEPT !.calls = Tail(job.calls), !.ok = @ /\ FALSE] /\ slow'
      BY <2>2, Zenon DEF CallReturns, Answered
    <3> QED BY <3>1, Zenon
  <2> QED BY <1>1, <2>1, <2>2, Zenon
<1>5. /\ job'.calls = Tail(job.calls) /\ job'.vm = job.vm /\ job'.root = job.root
      /\ job'.then = job.then /\ job'.ok = (job.ok /\ f)
  BY <1>1, <1>4, Zenon DEF GoodJob
<1>6. PICK K : K = Kept(waits, job.vm, Gone(job, waits))
  BY Zenon
<1>7. /\ Tokens(job.calls) \cap (K \cup orphaned) = {}
      /\ wait_services = K \cup orphaned \cup (Tokens(job.calls) \ {call.token})
      /\ job.ok \/ slow
      /\ job.root # 0 <=> job.then \in {"select", "cancel"}
  BY <1>6, ZenonT(30) DEF KInv, DInv, JobSound
<1>8. 0 \notin Tokens(job.calls)
  BY <1>1, ZeroIsNoToken, Zenon
<1>9. Gone(job', waits) = Gone(job, waits)
  BY <1>5, Zenon DEF Gone
<1>10. call'.token = 0
  BY <1>1, ZenonT(30) DEF NoCall
<1>11. JobSound(job', waits, orphaned, wait_services, 0, slow')
  <2>1. Tokens(job'.calls) \subseteq Tokens(job.calls)
    BY <1>2, <1>5, Zenon
  <2>2. Tokens(job'.calls) \ {0} = Tokens(job.calls) \ {call.token}
    BY <1>2, <1>3, <1>5, <1>8, Zenon
  <2>3. K = Kept(waits, job'.vm, Gone(job', waits))
    BY <1>5, <1>6, <1>9, Zenon
  <2>4. Tokens(job'.calls) \cap (K \cup orphaned) = {}
    BY <1>7, <2>1, Zenon
  <2>5. wait_services = K \cup orphaned \cup (Tokens(job'.calls) \ {0})
    BY <1>7, <2>2, Zenon
  <2>6. job'.ok \/ slow'
    BY <1>4, <1>5, <1>7, Zenon
  <2>7. /\ GoodCalls(job'.calls)
        /\ job'.root # 0 <=> job'.then \in {"select", "cancel"}
    BY <1>2, <1>5, <1>7, Zenon
  <2> QED BY <2>3, <2>4, <2>5, <2>6, <2>7, Zenon DEF JobSound
<1>12. JobSound(job', waits', orphaned', wait_services', call'.token, slow')
  BY <1>1, <1>10, <1>11, Zenon
<1>13. Asked'
  <2>1. call' \in [token : Nat, answer : {"none", "awaited", "found"}] /\ call'.answer = "none"
    BY <1>1, SMTT(30) DEF NoCall
  <2> QED BY <1>10, <2>1, Zenon DEF Asked
<1>14. CInv'
  <2>1. Calls' \subseteq Calls
    BY <1>2, <1>5, Zenon DEF Calls
  <2>2. Answering' = Answering /\ Given' = Given /\ (\E S : ready' \in Seq(S))
    BY <1>1, Zenon DEF Answering, Given, CInv
  <2>3. DOMAIN host_completions' \cup Answering' \cup Calls'
            \subseteq DOMAIN host_completions \cup Answering \cup Calls
    BY <1>1, <2>1, <2>2, Zenon
  <2>4. Given \subseteq Given'
    BY <2>2, Zenon
  <2> QED BY <1>1, <2>2, <2>3, <2>4, ChannelStays, Zenon
<1>15. Sound(waits', orphaned')
  BY <1>1, Zenon
<1> QED BY <1>12, <1>13, <1>14, <1>15, Zenon DEF DInv

----------------------------------------------------------------------------
(* The operation ends: its waits are retired, and the tokens of them are     *)
(* gone.                                                                     *)
LEMMA JobEndsStep == ASSUME KInv, JobEnds PROVE DInv'
<1>1. PICK m \in Machines : m = job.vm
  BY Zenon DEF JobEnds, KInv, TInv, WInv, GoodJob
<1>2. /\ WInv /\ CInv /\ Asked /\ Sound(waits, orphaned) /\ job.calls = <<>> /\ job' = NoJob
      /\ UNCHANGED <<inputVars, host_completions, next_token, wait_services>>
      /\ waits \in [Machines -> Tables]
  BY Zenon DEF KInv, TInv, WInv, WTypes, DInv, JobEnds
<1>3. PICK D : D = Gone(job, waits)
  BY Zenon
<1>4. /\ wait_services = Kept(waits, m, D) \cup orphaned
      /\ job.root # 0 <=> job.then \in {"select", "cancel"}
  <2>1. /\ wait_services = Kept(waits, m, D) \cup orphaned \cup (Tokens(job.calls) \ {call.token})
        /\ job.root # 0 <=> job.then \in {"select", "cancel"}
    BY <1>1, <1>3, Zenon DEF KInv, DInv, JobSound
  <2> QED BY <1>2, <2>1, NoCalls, Zenon
<1>5. ASSUME NEW v, waits' = [waits EXCEPT ![m] = v], UNCHANGED orphaned,
             DOMAIN v = DOMAIN waits[m] \ D, \A t \in DOMAIN v : v[t] = waits[m][t]
      PROVE  Sound(waits', orphaned') /\ wait_services = Every(waits') \cup orphaned'
  <2>1. waits'[m] = v /\ \A k \in Machines \ {m} : waits'[k] = waits[k]
    BY <1>2, <1>5, Zenon
  <2>2. /\ DOMAIN waits'[m] = DOMAIN waits[m] \ D
        /\ \A t \in DOMAIN waits'[m] : waits'[m][t] = waits[m][t]
    BY <1>5, <2>1, Zenon
  <2>3. Every(waits') = Kept(waits, m, D)
    BY <2>1, <2>2, EveryLess, SMTT(30)
  <2>4. /\ \A k \in Machines : DOMAIN waits'[k] \subseteq DOMAIN waits[k]
        /\ \A k \in Machines : \A t \in DOMAIN waits'[k] : waits'[k][t] = waits[k][t]
    BY <2>1, <2>2, Zenon
  <2>5. Sound(waits', orphaned)
    BY <1>2, <2>4, SoundLess, Zenon
  <2> QED BY <1>4, <1>5, <2>3, <2>5, Zenon
<1>6. ASSUME job.then \in {"select", "cancel"}
      PROVE  /\ D = Tree(waits[m], job.root) /\ D \in SUBSET DOMAIN waits[m]
             /\ DOMAIN Retired(m, job.root) = DOMAIN waits[m] \ D
             /\ \A t \in DOMAIN Retired(m, job.root) : Retired(m, job.root)[t] = waits[m][t]
  <2>1. job.root # 0 /\ job.then # "close"
    BY <1>4, <1>6, Zenon
  <2>2. D = Tree(waits[m], job.root)
    BY <1>1, <1>3, <2>1, Zenon DEF Gone
  <2>3. D \in SUBSET DOMAIN waits[m]
    BY <2>2, Zenon DEF Tree
  <2>4. Retired(m, job.root) = [t \in DOMAIN waits[m] \ D |-> waits[m][t]]
    BY <2>2, Zenon DEF Retired
  <2> QED BY <2>2, <2>3, <2>4, Zenon
<1>7. Sound(waits', orphaned') /\ wait_services = Every(waits') \cup orphaned'
  <2>1. CASE /\ job.then \in {"select", "cancel"} /\ UNCHANGED orphaned
             /\ waits' = [waits EXCEPT ![m] = Retired(m, job.root)]
    BY <1>5, <1>6, <2>1, Zenon
  <2>2. CASE /\ job.then \in {"select", "cancel"}
             /\ Ends(m, "faulted", Retired(m, job.root))
    <3>1. PICK w : w = Retired(m, job.root)
      BY Zenon
    <3>2. /\ Ends(m, "faulted", w) /\ D \in SUBSET DOMAIN waits[m]
          /\ DOMAIN w = DOMAIN waits[m] \ D /\ \A t \in DOMAIN w : w[t] = waits[m][t]
      BY <1>6, <2>2, <3>1, Zenon
    <3> QED BY <1>2, <1>4, <3>2, EndsTables, Zenon
  <2>3. CASE job.then = "limit" /\ Ends(m, "faulted", waits[m])
    <3>1. job.root = 0 /\ job.then # "close"
      BY <1>4, <2>3, SMTT(30)
    <3>2. D = {}
      BY <1>3, <3>1, Zenon DEF Gone
    <3>3. DOMAIN waits[m] = DOMAIN waits[m] \ D /\ D \in SUBSET DOMAIN waits[m]
      BY <3>2, Zenon
    <3> QED BY <1>2, <1>4, <2>3, <3>3, EndsTables, Zenon
  <2>4. CASE job.then = "close" /\ waits' = [waits EXCEPT ![m] = <<>>] /\ UNCHANGED orphaned
    <3>1. D = DOMAIN waits[m]
      BY <1>1, <1>3, <2>4, Zenon DEF Gone
    <3>2. PICK v : v = <<>>
      BY Zenon
    <3>3. /\ waits' = [waits EXCEPT ![m] = v] /\ DOMAIN v = DOMAIN waits[m] \ D
          /\ \A t \in DOMAIN v : v[t] = waits[m][t]
      BY <2>4, <3>1, <3>2, EmptyTable, Zenon
    <3> QED BY <1>5, <2>4, <3>3, Zenon
  <2>5. job.then \in {"select", "cancel", "limit", "close"}
    BY Zenon DEF JobEnds, KInv, TInv, WInv, GoodJob
  <2>6. job.then \in {"select", "cancel"} => job.then # "limit" /\ job.then # "close"
    BY Zenon
  <2> QED BY <1>1, <2>1, <2>2, <2>3, <2>4, <2>5, <2>6, Zenon DEF JobEnds
<1>8. call' = call /\ UNCHANGED <<commands, pending, retained, ready>>
  BY <1>2, Zenon DEF inputVars
<1>9. Asked'
  BY <1>2, <1>8, AskedStays, Zenon
<1>10. CInv'
  <2>1. Calls' = {}
    BY <1>2, NoJobFacts, NoCalls, Zenon DEF Calls
  <2>2. Answering' = Answering /\ Given' = Given /\ (\E S : ready' \in Seq(S))
    BY <1>2, <1>8, Zenon DEF Answering, Given, CInv
  <2>3. DOMAIN host_completions' \cup Answering' \cup Calls'
            \subseteq DOMAIN host_completions \cup Answering \cup Calls
    BY <1>2, <2>1, <2>2, Zenon
  <2>4. Given \subseteq Given'
    BY <2>2, Zenon
  <2> QED BY <1>2, <1>8, <2>2, <2>3, <2>4, ChannelStays, Zenon
<1>11. JobSound(job', waits', orphaned', wait_services', call'.token, slow')
  <2>1. wait_services' = Every(waits') \cup orphaned'
    BY <1>2, <1>7, Zenon
  <2>2. JobSound(NoJob, waits', orphaned', wait_services', call'.token, slow')
    BY <2>1, IdleSound, Zenon
  <2> QED BY <1>2, <2>2, Zenon
<1> QED BY <1>7, <1>9, <1>10, <1>11, Zenon DEF DInv

(* The host takes an answer. *)
LEMMA CompletesStep == ASSUME KInv, HostCompletes PROVE DInv'
<1>1. /\ CInv /\ Asked /\ Sound(waits, orphaned)
      /\ JobSound(job, waits, orphaned, wait_services, call.token, slow)
  BY Zenon DEF KInv, DInv
<1>2. UNCHANGED <<call, waits, wait_services, job, slow, orphaned>> /\ \E c : TakesCompletion(c)
  BY Zenon DEF HostCompletes, TakesCompletion
<1>3. CInv'
  <2>1. Calls' \subseteq Calls
    BY <1>2, Zenon DEF Calls
  <2> QED BY <1>1, <1>2, <2>1, CompletesChannel, Zenon
<1>4. Asked'
  BY <1>1, <1>2, AskedStays, Zenon
<1>5. JobSound(job', waits', orphaned', wait_services', call'.token, slow') /\ Sound(waits', orphaned')
  BY <1>1, <1>2, Zenon
<1> QED BY <1>3, <1>4, <1>5, Zenon DEF DInv

(* finish. *)
LEMMA FinishStep == ASSUME KInv, NEW m \in Machines, finish(m) PROVE DInv'
<1>1. /\ job = NoJob /\ WInv /\ Sound(waits, orphaned)
      /\ UNCHANGED <<inputVars, waits, host_completions, next_token, wait_services, slow, orphaned>>
  BY Zenon DEF finish, KInv, TInv, DInv
<1>2. PICK b : b = CloseJob(m) /\ b = job'
  BY Zenon DEF finish
<1>3. JobSound(b, waits, orphaned, Every(waits) \cup orphaned, 0, slow) /\ Commits(b.calls) = {}
  BY <1>1, <1>2, CloseJobSound, Zenon
<1>4. CInv' /\ Asked'
  <2>1. Calls' = {}
    BY <1>2, <1>3, Zenon DEF Calls
  <2>2. /\ Calls' \subseteq DOMAIN host_completions /\ next_token' \in {next_token, next_token + 1}
        /\ DOMAIN host_completions' \subseteq DOMAIN host_completions
    BY <1>1, <2>1, Zenon
  <2> QED BY <1>1, <2>2, QuietChannel, Zenon
<1>5. wait_services' = Every(waits) \cup orphaned /\ call'.token = 0
  BY <1>1, IdleFacts, Zenon DEF inputVars
<1>6. JobSound(job', waits', orphaned', wait_services', call'.token, slow') /\ Sound(waits', orphaned')
  BY <1>1, <1>2, <1>3, <1>5, Zenon
<1> QED BY <1>4, <1>6, Zenon DEF DInv

(* service_wait_slice. *)
LEMMA ServiceStep ==
  ASSUME KInv, WInv', NEW m \in Machines, service_wait_slice(m) PROVE DInv'
<1>1. /\ job = NoJob /\ state[m] = "blocked" /\ Sound(waits, orphaned) /\ WInv
      /\ UNCHANGED <<inputVars, waits, next_token, wait_services, orphaned>>
  BY Zenon DEF service_wait_slice, KInv, TInv, DInv
<1>2. block[m] \in DOMAIN waits[m]
  BY <1>1, Zenon DEF WInv, GoodTable, Current
<1>3. PICK w, r : w = waits[m] /\ r = block[m]
  BY Zenon
<1>4. /\ w = waits'[m] /\ r \in DOMAIN w /\ ReadyAt(m, w, r) # {} /\ complete_ready_wait(m, w, r)
  BY <1>1, <1>2, <1>3, ZenonT(30) DEF service_wait_slice
<1>5. Sound(waits', orphaned') /\ wait_services = Every(waits') \cup orphaned'
  BY <1>1, IdleFacts, Zenon
<1> QED BY <1>1, <1>4, <1>5, SelectStarts, SMTT(30)

(* The threads of the input service. *)
LEMMA InputStep == ASSUME KInv, Input PROVE DInv'
<1>1. /\ TInv /\ CInv /\ Asked /\ Sound(waits, orphaned)
      /\ JobSound(job, waits, orphaned, wait_services, call.token, slow)
      /\ UNCHANGED <<waits, wait_services, job, slow, orphaned>>
  BY Zenon DEF KInv, DInv, Input, waitVars
<1>2. CInv' /\ Asked'
  BY <1>1, InputChannel, Zenon
<1>3. UNCHANGED call \/ \E t, a : Reply(t, a)
  BY Zenon DEF Input, ReaderReads, input_worker, WorkerCommand, handle_input_command, TakesRequest,
       CommitsRead, CancelsPending, CancelsAnswered, WorkerData, WorkerAnswers, WorkerReleases,
       WorkerMovesOn
<1>4. call'.token = call.token
  <2>1. ASSUME NEW t, NEW a, Reply(t, a) PROVE call'.token = call.token
    <3>1. call' = call \/ call' = [call EXCEPT !.answer = a]
      BY <2>1, Zenon DEF Reply
    <3> QED BY <1>1, <3>1, Zenon DEF Asked
  <2> QED BY <1>3, <2>1, Zenon
<1>5. JobSound(job', waits', orphaned', wait_services', call'.token, slow') /\ Sound(waits', orphaned')
  BY <1>1, <1>4, Zenon
<1> QED BY <1>2, <1>5, Zenon DEF DInv

----------------------------------------------------------------------------
(* The first state. *)
LEMMA KInvInit == Init => KInv
<1> SUFFICES ASSUME Init PROVE KInv
  BY Zenon
<1>1. /\ TInv /\ commands = <<>> /\ pending = <<>> /\ retained = <<>> /\ ready = <<>>
      /\ host_completions = <<>> /\ call = NoCall /\ job = NoJob /\ orphaned = {}
      /\ wait_services = {} /\ waits = [m \in Machines |-> <<>>]
  BY TInvInit, Zenon DEF Init, InputInit
<1>2. DOMAIN <<>> = {} /\ Range(<<>>) = {}
  BY EmptyTable, Zenon DEF Range
<1>3. job.calls = <<>> /\ Calls = {}
  BY <1>1, NoJobFacts, NoCalls, Zenon DEF Calls
<1>4. \A m \in Machines : DOMAIN waits[m] = {}
  BY <1>1, <1>2, Zenon
<1>5. CInv
  <2>1. Ordered(commands) /\ Distinct(pending)
    BY <1>1, <1>2, ZenonT(30) DEF Ordered, Distinct
  <2>2. \E S : ready \in Seq(S)
    <3>1. <<>> \in Seq(Tells)
      OBVIOUS
    <3> QED BY <1>1, <3>1, Zenon
  <2>3. Asking = {} /\ Queued = {} /\ Replied = {}
    BY <1>1, <1>2, <1>3, Zenon DEF Asking, Queued, Replied, Answering, Req, Tok, Cmt
  <2>4. HeldByService = {} /\ Told = {}
    BY <1>1, <1>2, ZenonT(30) DEF HeldByService, Told
  <2> QED BY <1>1, <2>1, <2>2, <2>3, <2>4, Zenon DEF CInv
<1>6. Asked
  <2>1. call \in [token : Nat, answer : {"none", "awaited", "found"}] /\ call.answer = "none" /\ call.token = 0
    BY <1>1, SMTT(30) DEF NoCall
  <2> QED BY <2>1, ZenonT(30) DEF Asked
<1>7. Sound(waits, orphaned)
  BY <1>4, Zenon DEF Sound
<1>8. JobSound(job, waits, orphaned, wait_services, call.token, slow)
  <2>1. Every(waits) = {}
    BY <1>4, EveryIs, Zenon
  <2>2. wait_services = Every(waits) \cup orphaned
    BY <1>1, <2>1, Zenon
  <2> QED BY <1>1, <2>2, IdleSound, Zenon
<1> QED BY <1>1, <1>5, <1>6, <1>7, <1>8, Zenon DEF KInv, DInv

(* Every step keeps the invariant. *)
LEMMA KInvStep == KInv /\ [Next]_vars => KInv'
<1> SUFFICES ASSUME KInv, [Next]_vars PROVE KInv'
  BY Zenon
<1>1. TInv' /\ WInv'
  <2>1. TInv
    BY Zenon DEF KInv
  <2>2. TInv'
    BY <2>1, TInvStep, Zenon
  <2> QED BY <2>2, Zenon DEF TInv
<1> SUFFICES DInv'
  BY <1>1, ZenonT(30) DEF KInv
<1>2. CASE Input
  BY <1>2, InputStep, Zenon
<1>3. CASE World
  BY <1>1, <1>3, CallStep, ReturnStep, JobEndsStep, CompletesStep, FinishStep, ServiceStep,
     ReplyStep, Zenon DEF World
<1>4. CASE \E m \in Machines : Guest(m)
  BY <1>1, <1>4, GuestStep, Zenon
<1>5. CASE UNCHANGED vars
  <2>1. UNCHANGED <<commands, pending, retained, ready, call>>
    BY <1>5, Zenon DEF vars, inputVars
  <2>2. UNCHANGED <<waits, wait_services, job, slow, orphaned, host_completions, next_token>>
    BY <1>5, Zenon DEF vars, waitVars
  <2>3. DInv
    BY Zenon DEF KInv
  <2>4. (\E S : ready' \in Seq(S)) /\ Answering' = Answering /\ Calls' = Calls /\ Given' = Given
    BY <2>1, <2>2, <2>3, Zenon DEF DInv, CInv, Answering, Calls, Given
  <2>5. CInv'
    BY <2>1, <2>2, <2>3, <2>4, ChannelStays, Zenon DEF DInv
  <2>6. Asked'
    BY <2>1, <2>2, <2>3, AskedStays, Zenon DEF DInv
  <2> QED BY <2>1, <2>2, <2>3, <2>5, <2>6, Zenon DEF DInv
<1> QED BY <1>2, <1>3, <1>4, <1>5, Zenon DEF Next

(* The tokens that TokensAgree compares, unless a machine is being closed. *)
LEMMA InTablesIs ==
  ASSUME job.then # "close" PROVE InTables = Kept(waits, job.vm, Gone(job, waits))
<1> DEFINE D == Gone(job, waits)
<1>1. ASSUME NEW m \in Machines, NEW t \in DOMAIN waits[m]
      PROVE  t \in (IF job.vm = m /\ job.root # 0 THEN Tree(waits[m], job.root) ELSE {})
             <=> m = job.vm /\ t \in D
  BY Zenon DEF Gone
<1> HIDE DEF D
<1>2. ASSUME NEW x
      PROVE  x \in InTables <=>
               \E m \in Machines : \E t \in DOMAIN waits[m] :
                  (m = job.vm => t \notin D) /\ x = waits[m][t].scope /\ x # 0
  <2>1. ASSUME x \in InTables
        PROVE  \E m \in Machines : \E t \in DOMAIN waits[m] :
                  (m = job.vm => t \notin D) /\ x = waits[m][t].scope /\ x # 0
    <3>1. PICK m \in Machines :
             x \in {waits[m][t].scope : t \in DOMAIN waits[m] \
                      (IF job.vm = m /\ job.root # 0 THEN Tree(waits[m], job.root) ELSE {})} \ {0}
      BY <2>1, Zenon DEF InTables
    <3> DEFINE G == IF job.vm = m /\ job.root # 0 THEN Tree(waits[m], job.root) ELSE {}
    <3>2. \A t \in DOMAIN waits[m] : t \in G <=> m = job.vm /\ t \in D
      BY <1>1, Zenon
    <3>3. x \in {waits[m][t].scope : t \in DOMAIN waits[m] \ G} \ {0}
      BY <3>1, Zenon
    <3> HIDE DEF G
    <3>4. PICK t \in DOMAIN waits[m] : t \notin G /\ x = waits[m][t].scope /\ x # 0
      BY <3>3, Zenon
    <3> QED BY <3>2, <3>4, Zenon
  <2>2. ASSUME NEW m \in Machines, NEW t \in DOMAIN waits[m],
               m = job.vm => t \notin D, x = waits[m][t].scope, x # 0
        PROVE  x \in InTables
    <3> DEFINE G == IF job.vm = m /\ job.root # 0 THEN Tree(waits[m], job.root) ELSE {}
    <3>1. t \notin G
      BY <1>1, <2>2, Zenon
    <3> HIDE DEF G
    <3>2. x \in {waits[m][u].scope : u \in DOMAIN waits[m] \ G} \ {0}
      BY <2>2, <3>1, Zenon
    <3>3. PICK A : A = {waits[m][u].scope : u \in DOMAIN waits[m] \ G} \ {0}
      BY Zenon
    <3>4. A \in {LET gone == IF job.vm = k /\ job.root # 0 THEN Tree(waits[k], job.root) ELSE {}
                 IN {waits[k][u].scope : u \in DOMAIN waits[k] \ gone} \ {0} : k \in Machines}
      BY <3>3, Zenon DEF G
    <3> QED BY <3>2, <3>3, <3>4, Zenon DEF InTables
  <2> QED BY <2>1, <2>2, Zenon

<1>3. ASSUME NEW x PROVE x \in InTables <=> x \in Kept(waits, job.vm, D)
  <2>1. x \in Kept(waits, job.vm, D) <=>
           \E m \in Machines : \E t \in DOMAIN waits[m] :
              (m = job.vm => t \notin D) /\ x = waits[m][t].scope /\ x # 0
    BY KeptIs, SMTT(30)
  <2> QED BY <1>2, <2>1, Zenon
<1> QED BY <1>3, Zenon DEF D

(* The host's set wait_services holds exactly the reads that the input       *)
(* service holds and that no commit or cancel in the channel is about; and   *)
(* exactly the tokens in the guests' tables that stay, those the operation   *)
(* under way has still to call for, and those a proc left when it ended.     *)
(* Neither read_wait, a selection, cancel, a full table nor a deadline       *)
(* leaves a token that only one of them knows.                               *)
THEOREM WaitTokensAgree == Spec => []TokensAgree
<1>1. KInv => TokensAgree
  <2> SUFFICES ASSUME KInv PROVE TokensAgree
    BY Zenon
  <2>1. wait_services = HeldByService \ Told
    BY Zenon DEF KInv, DInv, CInv
  <2>2. /\ wait_services = Kept(waits, job.vm, Gone(job, waits)) \cup orphaned
                           \cup (Tokens(job.calls) \ {call.token})
        /\ Tokens(job.calls) = {c.token : c \in Range(job.calls)}
    BY Zenon DEF KInv, DInv, JobSound, Tokens
  <2>3. ASSUME job.then # "close"
        PROVE  wait_services = InTables \cup orphaned
                               \cup ({c.token : c \in Range(job.calls)} \ {call.token})
    BY <2>2, <2>3, InTablesIs, Zenon
  <2> QED BY <2>1, <2>3, Zenon DEF TokensAgree
<1> QED BY <1>1, KInvInit, KInvStep, PTL DEF Spec

(* A selection or a cancel fails only after a call passed its deadline: the  *)
(* input service always finds the token that complete_ready_wait commits or  *)
(* cancel cancels, whatever the other machines and the worker did meanwhile. *)
THEOREM SelectionsFailLate == Spec => []FailsOnlyLate
<1>1. KInv => FailsOnlyLate
  BY Zenon DEF KInv, DInv, JobSound, FailsOnlyLate
<1> QED BY <1>1, KInvInit, KInvStep, PTL DEF Spec
============================================================================
