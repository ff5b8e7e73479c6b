----------------------------- MODULE AtomicDisk -----------------------------
(***************************************************************************)
(* What the block device promises: a request is served once, atomically,   *)
(* between its submission and its collection; a read returns what the      *)
(* sector holds at that moment.                                            *)
(***************************************************************************)
CONSTANTS Procs, Sectors, Data

VARIABLES
    content,  \* content[s]: data of sector s
    req       \* req[p]: the request of p, or what became of it

vars == <<content, req>>

Idle == [phase |-> "idle"]
Request(ph, w, s, d) == [phase |-> ph, write |-> w, sector |-> s, data |-> d]

Init == content \in [Sectors -> Data] /\ req = [p \in Procs |-> Idle]

Submit(p) ==
    /\ req[p] = Idle
    /\ \E w \in BOOLEAN, s \in Sectors, d \in Data :
          req' = [req EXCEPT ![p] = Request("pending", w, s, d)]
    /\ UNCHANGED content

Serve(p) ==
    /\ req[p].phase = "pending"
    /\ LET s == req[p].sector
       IN  IF req[p].write
           THEN /\ content' = [content EXCEPT ![s] = req[p].data]
                /\ req' = [req EXCEPT ![p].phase = "served"]
           ELSE /\ req' = [req EXCEPT ![p].phase = "served",
                                      ![p].data = content[s]]
                /\ UNCHANGED content

Collect(p) ==
    /\ req[p].phase = "served"
    /\ req' = [req EXCEPT ![p] = Idle]
    /\ UNCHANGED content

Next == \E p \in Procs : Submit(p) \/ Serve(p) \/ Collect(p)

Spec == Init /\ [][Next]_vars
=============================================================================
