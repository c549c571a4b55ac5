------------------------------ MODULE WebServer ------------------------------
(***************************************************************************)
(* The web page of radmsrvd and the processes behind it (main.c, srvd.c,   *)
(* httpdCreate and httpdGetConnection of libhttpd/api.c).                  *)
(*                                                                         *)
(* The supervisor forks the worker and forks it again ten seconds after it *)
(* ended.  The worker binds the device port, then the web port, and runs;  *)
(* while a connection waits at the web port, every pass of its loop forks  *)
(* a child, which accepts, reads and serves one request and exits.  A      *)
(* child has a copy of every descriptor the worker had: both listening     *)
(* sockets, the control socket and the sockets of the sessions.  A port    *)
(* can be bound when no process listens on it any more.                    *)
(*                                                                         *)
(* A white list is named after the request that saved it, "start" for that *)
(* of the command line, which run_radmsrv takes from the file; how its     *)
(* text survives the datagram is in RadmServer.  How a request is read is  *)
(* in HttpRequest.                                                         *)
(*                                                                         *)
(* Not modelled: the options that need a restart, "Save Reboot" (a script  *)
(* outside the repository), and failures of socketpair and write.          *)
(***************************************************************************)
EXTENDS Naturals, Sequences, SequencesExt

CONSTANTS Reqs,   \* connections of browsers, one request each
          Kids,   \* the processes the system lets the worker fork
          Nil,
          CtlMax  \* the datagrams radmsrv_ctl takes before write waits

ASSUME NilAssumption == Nil \notin Reqs
ASSUME CtlAssumption == CtlMax \in Nat \ {0}
ASSUME NamesAssumption == Reqs \cap {"start", "empty", "mixed", "IP"} = {}

VARIABLES worker, \* "none", about to bind a port, or in its loop
          dev,    \* the worker listens on the device port
          queue,  \* requests in the queue of the web port
          req,    \* what became of each request
          asks,   \* what it asks for
          kid,    \* the children
          ctl,    \* the datagrams in radmsrv_ctl
          white,  \* white_list_ip of the worker
          file,   \* the white list in cfgfile
          sess,   \* a session of the worker
          synced  \* history: the last save was whole, alone and is obeyed

page == <<queue, req, asks>>
lists == <<ctl, white, file, synced>>
vars == <<worker, dev, kid, sess, page, lists>>

-----------------------------------------------------------------------------

\* A page or redirection that needs no login or is denied one, the list of
\* devices, a form without its last field, and a form.
Asks == {"other", "list", "torn", "save"}

Alive == {k \in Kids : kid[k] # Nil}

Saving(k) == k \in Alive /\ kid[k].st \in {"open", "write"}

\* What remains of the queue when nobody listens any more.
Reset(r, left) == IF left \/ r \notin ToSet(queue) THEN req[r] ELSE "reset"

Init ==
    /\ worker = "device" /\ dev = FALSE
    /\ queue = <<>>
    /\ req = [r \in Reqs |-> "new"]
    /\ asks \in [Reqs -> Asks]
    /\ kid = [k \in Kids |-> Nil]
    /\ ctl = <<>> /\ white = "start" /\ file = "start"
    /\ sess = "none"
    /\ synced = TRUE

-----------------------------------------------------------------------------
(* The supervisor and the worker.                                          *)

\* child_exit and mysystem, ten seconds after the worker ended.
Wake ==
    /\ worker = "none"
    /\ worker' = "device"
    /\ UNCHANGED <<dev, kid, sess, page, lists>>

\* radmsrv_create, whose failure radmsrv_main does not look at.
BindDevice ==
    /\ worker = "device"
    /\ worker' = "web"
    /\ dev' = (\A k \in Alive : ~kid[k].dev)
    /\ UNCHANGED <<kid, sess, page, lists>>

\* Mutant: without the web port the worker goes on, in a loop with nothing.
BadBindWeb ==
    /\ worker = "web"
    /\ worker' = IF Alive # {} THEN "stuck" ELSE "run"
    /\ white' = "start" /\ ctl' = <<>> /\ synced' = (file = "start")
    /\ UNCHANGED <<dev, file, kid, sess, page>>

\* create_http_server: the children of an earlier worker listen on the port
\* as long as they live; the worker then returns to mysystem and exits.
BindWeb ==
    /\ worker = "web"
    /\ \/ /\ Alive # {}
          /\ worker' = "none" /\ dev' = FALSE
          /\ UNCHANGED lists
       \/ /\ Alive = {}
          /\ worker' = "run"
          /\ white' = "start" /\ ctl' = <<>> /\ synced' = (file = "start")
          /\ UNCHANGED <<dev, file>>
    /\ UNCHANGED <<kid, sess, page>>

Dies ==
    /\ worker' = "none" /\ dev' = FALSE
    /\ sess' = IF sess = "open" THEN "closed" ELSE sess
    /\ kid' = [k \in Kids |-> IF kid[k] = Nil THEN Nil
                              ELSE [kid[k] EXCEPT !.old = TRUE, !.alone = FALSE]]
    /\ ctl' = <<>> /\ synced' = FALSE
    /\ queue' = IF Alive = {} THEN <<>> ELSE queue
    /\ req' = [r \in Reqs |-> Reset(r, Alive # {})]
    /\ UNCHANGED <<asks, white, file>>

\* No descriptor left, SIGPIPE, or a delete from an empty list (RadmServer).
WorkerDies == worker = "run" /\ Dies

\* httpd_accept_callback.  A fork that fails is tried again in the next pass.
Fork(k) ==
    /\ worker = "run"
    /\ queue # <<>>
    /\ kid[k] = Nil
    /\ kid' = [kid EXCEPT ![k] = [st |-> "select", req |-> Nil, dev |-> dev,
                                  sess |-> sess = "open", old |-> FALSE, alone |-> FALSE]]
    /\ UNCHANGED <<worker, dev, sess, page, lists>>

\* Mutant: the address is stored although there is no list.
BadHear ==
    /\ worker = "run"
    /\ ctl # <<>>
    /\ ctl' = Tail(ctl)
    /\ white' = IF Head(ctl) = "IP" THEN white ELSE Head(ctl)
    /\ UNCHANGED <<worker, dev, kid, sess, page, file, synced>>

\* radmsrv_ctl_callback.  A worker that did not get the device port has no
\* list of addresses either, and add_ip ends it.
Hear ==
    /\ worker = "run"
    /\ ctl # <<>>
    /\ \/ /\ Head(ctl) = "IP" /\ ~dev
          /\ Dies
       \/ /\ Head(ctl) # "IP" \/ dev
          /\ ctl' = Tail(ctl)
          /\ white' = IF Head(ctl) = "IP" THEN white ELSE Head(ctl)
          /\ UNCHANGED <<worker, dev, kid, sess, page, file, synced>>

\* A device is handed to a customer; the session ends.
SessionOpens ==
    /\ worker = "run" /\ dev
    /\ sess = "none"
    /\ sess' = "open"
    /\ UNCHANGED <<worker, dev, kid, page, lists>>

SessionEnds ==
    /\ sess = "open"
    /\ sess' = "closed"
    /\ UNCHANGED <<worker, dev, kid, page, lists>>

-----------------------------------------------------------------------------
(* A browser and the children.                                             *)

Listening == worker = "run" \/ Alive # {}

Connects(r) ==
    /\ Listening
    /\ req[r] = "new"
    /\ req' = [req EXCEPT ![r] = "queued"]
    /\ queue' = Append(queue, r)
    /\ UNCHANGED <<worker, dev, kid, sess, asks, lists>>

Goes(k, st) == kid' = [kid EXCEPT ![k].st = st]

\* The child exits, its request came to an end, and with the last process
\* that listens the queue is gone.
Leaves(k, outcome) ==
    LET left == worker = "run" \/ Alive # {k}
    IN  /\ kid' = [kid EXCEPT ![k] = Nil]
        /\ queue' = IF left THEN queue ELSE <<>>
        /\ req' = [r \in Reqs |-> IF r = kid[k].req THEN outcome ELSE Reset(r, left)]
        /\ UNCHANGED asks

At(k, st) == k \in Alive /\ kid[k].st = st

\* Mutant: select waits.
BadSelect(k) ==
    /\ At(k, "select")
    /\ queue # <<>>
    /\ Goes(k, "accept")
    /\ UNCHANGED <<worker, dev, sess, page, lists>>

\* select without a wait, or a false alarm.
Select(k) ==
    /\ At(k, "select")
    /\ IF queue = <<>> THEN Leaves(k, Nil) ELSE Goes(k, "accept") /\ UNCHANGED page
    /\ UNCHANGED <<worker, dev, sess, lists>>

\* Mutant: looks at the queue once.
BadAccept(k) ==
    /\ At(k, "accept")
    /\ IF queue = <<>> THEN UNCHANGED vars
       ELSE /\ kid' = [kid EXCEPT ![k].st = "read", ![k].req = Last(queue)]
            /\ queue' = <<>>
            /\ req' = [req EXCEPT ![Last(queue)] = "read"]
            /\ UNCHANGED <<worker, dev, sess, asks, lists>>

\* accept, which waits for another connection when a sibling was faster.
Accept(k) ==
    /\ At(k, "accept")
    /\ queue # <<>>
    /\ kid' = [kid EXCEPT ![k].st = "read", ![k].req = Head(queue)]
    /\ queue' = Tail(queue)
    /\ req' = [req EXCEPT ![Head(queue)] = "read"]
    /\ UNCHANGED <<worker, dev, sess, asks, lists>>

\* The control socket as the child sees it: that of a worker that is gone
\* takes datagrams nobody reads, since the child holds both its ends.
Sent(k, d) == IF kid[k].old THEN ctl' = ctl
              ELSE Len(ctl) < CtlMax /\ ctl' = Append(ctl, d)

\* httpdReadRequest, which gives up after three seconds without data, and
\* show_radmclient_list up to what the login is good for.  The list of a
\* worker without device port is a null pointer, and so is the field of a form
\* that was cut off.  A form is turned down for a port that cannot be bound.
Serve(k) ==
    /\ At(k, "read")
    /\ LET what == asks[kid[k].req]
       IN  \/ /\ what = "other"
              /\ Leaves(k, "answered")
              /\ UNCHANGED ctl
           \/ /\ what \in {"list", "torn"}
              /\ Sent(k, "IP")
              /\ Leaves(k, IF what = "list" /\ kid[k].dev THEN "answered" ELSE "reset")
           \/ /\ what = "save"
              /\ Sent(k, "IP")
              /\ \/ Goes(k, "tell") /\ UNCHANGED page
                 \/ Leaves(k, "answered")
    /\ UNCHANGED <<worker, dev, sess, white, file, synced>>

\* Mutant: the worker is not told.
BadTell(k) ==
    /\ At(k, "tell")
    /\ kid' = [kid EXCEPT ![k].st = "open", ![k].alone = TRUE]
    /\ UNCHANGED <<worker, dev, sess, page, ctl, white, file, synced>>

\* The new white list goes to the worker before the file is opened.  Two
\* children that save at the same time are not alone.
Tell(k) ==
    /\ At(k, "tell")
    /\ Sent(k, kid[k].req)
    /\ LET others == {j \in Kids \ {k} : Saving(j)}
       IN  kid' = [j \in Kids |->
                      IF j = k THEN [kid[k] EXCEPT !.st = "open",
                                                   !.alone = others = {} /\ ~kid[k].old]
                      ELSE IF j \in others THEN [kid[j] EXCEPT !.alone = FALSE]
                      ELSE kid[j]]
    /\ synced' = FALSE
    /\ UNCHANGED <<worker, dev, sess, page, white, file>>

\* fopen empties the file, or fails.
OpenFile(k) ==
    /\ At(k, "open")
    /\ \/ /\ file' = "empty"
          /\ Goes(k, "write")
          /\ UNCHANGED page
       \/ /\ Leaves(k, "answered")
          /\ UNCHANGED file
    /\ UNCHANGED <<worker, dev, sess, ctl, white, synced>>

\* fclose writes the settings over what is there by now.
WriteFile(k) ==
    /\ At(k, "write")
    /\ file' \in {kid[k].req} \cup (IF file = "empty" THEN {} ELSE {"mixed"})
    /\ synced' = kid[k].alone
    /\ Leaves(k, "answered")
    /\ UNCHANGED <<worker, dev, sess, ctl, white>>

-----------------------------------------------------------------------------

Child(k) == \/ Select(k) \/ Accept(k) \/ Serve(k)
            \/ Tell(k) \/ OpenFile(k) \/ WriteFile(k)

Start == Wake \/ BindDevice \/ BindWeb

Next ==
    \/ Start \/ WorkerDies \/ Hear \/ SessionOpens \/ SessionEnds
    \/ \E k \in Kids : Fork(k) \/ Child(k)
    \/ \E r \in Reqs : Connects(r)

\* The loop of the worker goes on (PollLoop), and so do the processes.
FairSpec == /\ Init /\ [][Next]_vars
            /\ WF_vars(Start) /\ WF_vars(Hear) /\ WF_vars(\E k \in Kids : Fork(k))
            /\ \A k \in Kids : WF_vars(Child(k))

-----------------------------------------------------------------------------
(* Properties.                                                             *)

Blocked(k) == At(k, "accept") /\ queue = <<>>

\* Every connection the web port took is answered, or closed by the end of the
\* process it was meant for, though more children are forked than there are
\* connections and the worker may end at any time.
Answered == \A r \in Reqs : req[r] = "queued" ~> req[r] \in {"answered", "reset"}

\* The supervisor brings the worker back, however often it ends; only a child
\* of an earlier worker that waits in accept can keep it from the web port, and
\* does so until the next browser comes.
UpAgain == []<>(worker = "run" \/ \E k \in Kids : Blocked(k))

\* A worker that runs without the device port, because the last child of the
\* earlier one exited between its two binds, does not survive the next login.
DeafUntilLogin == (worker = "run" /\ ~dev /\ "IP" \in ToSet(ctl)) ~> (worker # "run")

\* The white list the worker obeys is the one in the file, unless two children
\* saved at the same time, the file could not be opened or the worker was
\* started again since.
SavedIsObeyed ==
    synced /\ worker = "run" /\ ctl = <<>> /\ (\A k \in Kids : ~Saving(k)) => white = file

\* The sockets of a session close for its two ends when the worker closes
\* them, or when the children forked meanwhile have exited, which one that
\* waits in accept does not do before the next browser comes.
SessionCloses ==
    sess = "closed" ~> \/ \A k \in Alive : ~kid[k].sess
                       \/ \E k \in Alive : Blocked(k) /\ kid[k].sess

\* What radmsrv_main starts with: a worker that runs listens for devices.
ListensForDevices == worker = "run" => dev
=============================================================================
