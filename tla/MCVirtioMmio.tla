---------------------------- MODULE MCVirtioMmio ----------------------------
(* Queues of two sizes in four places, and requests in one of the places.  *)
EXTENDS VirtioMmio

MCSectors == 1..2
MCData == 1..2
MCPfns == {2, 3}
MCPageSizes == {512, 4096}
MCQueueNums == {4, 16}

OnePlace == want.QUEUE_PFN = 2 /\ want.GUEST_PAGE_SIZE = 4096

MCNext ==
    \/ NotUsed /\ MmioNext /\ UNCHANGED vars
    \/ OnePlace /\ FullNext
    \/ Ended

MCSpec ==
    /\ FullInit /\ [][MCNext]_<<vars, mmio>>
    /\ WF_vars(~astray /\ DiskAccess) /\ WF_vars(~astray /\ Handler)
=============================================================================
