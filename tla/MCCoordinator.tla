--------------------------- MODULE MCCoordinator ---------------------------
(* Coordinator.tla on a root, two procs and one machine that the first proc  *)
(* holds.  A program gives each guest its requests.                          *)
EXTENDS Coordinator

send(u) == Req("send", u)
done(u) == Req("done", u)
pause == Req("pause", 1)
resume == Req("resume", 1)
runHeld == Req("run", 3)
recv == Req("recv", 0)
host == Req("host", 0)
gc == Req("collect", 0)

Holders == [h \in {3} |-> 1]

World(R, A, B, H) ==
    {[m \in {0, 1, 2, 3} |-> <<r, a, b, h>>[m + 1]] : r \in R, a \in A, b \in B, h \in H}

(* Messages through full and empty mailboxes, joins, host calls and         *)
(* collections; a held machine that asks for another task's attention; a    *)
(* pause of a proc that receives.                                           *)
SafePrograms ==
    World({<<send(1), done(2)>>},
          {<<recv, send(2)>>, <<host, recv>>, <<gc, recv>>},
          {<<send(1), recv>>, <<recv>>}, {<<>>})
    \cup
    World({<<done(2)>>}, {<<runHeld>>}, {<<recv, gc>>},
          {<<send(2)>>, <<done(2)>>, <<host>>})
    \cup
    World({<<pause, resume>>, <<pause, done(2)>>}, {<<recv>>},
          {<<send(1), send(1)>>, <<gc>>}, {<<>>})

(* A pause of a proc that sends. *)
PausedSender == World({<<pause>>}, {<<send(2)>>}, {<<recv>>}, {<<>>})
============================================================================
