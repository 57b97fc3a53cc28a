------------------------------- MODULE MCMMan -------------------------------
(***************************************************************************)
(* An instance of MMan: the scheduler's root and a user root, and pages of *)
(* every kind find_available_local, add_channel, add_storage and requests  *)
(* use.  The pages of requests include a channel's page and the storage.   *)
(***************************************************************************)
EXTENDS MMan

CONSTANTS own, user, temporary, l1, l2, l3, l4, c1, c2, c3, c4, c5, c6, s1, s2, s3, k,
          top, tm, tl, th, tk

AddrsDef  == {temporary, l1, l2, l3, l4, c1, c2, c3, c4, c5, c6, s1, s2, s3, k}
TablesDef == {top, tm, tl, th, tk}

\* The scheduler's local pages share a table, a task's channels and storage
\* another; k, the page at KMEM_BASE_ADDR say, lies below a shared one.
ChainDef ==
    [a \in AddrsDef |->
        CASE a \in {temporary, l1, l2, l3, l4} -> <<top, tm, tl>>
          [] a = k  -> <<top, tk>>
          [] OTHER  -> <<top, tm, th>>]

LocalChannelsDef == <<l1, l2, l3, l4>>
TaskChannelsDef  == <<c1, c2, c3, c4, c5, c6>>
LocalStorageDef  == <<s1, s2, s3>>

\* At boot there are the two roots, the shared table with its page, and a table of
\* the user root.
BootDef ==
    [r \in {own, user} |->
        [x \in AddrsDef \cup TablesDef |->
            CASE x = top -> IF r = own THEN 1 ELSE 2
              [] x = tk -> 3
              [] x = k /\ r = own -> 4
              [] x = tm /\ r = user -> 5
              [] OTHER -> 0]]
BootFreeDef == [i \in 1..13 |-> i + 5]
RamDef      == 1..18
DevicesDef  == {100}

\* kmain's root has the shared table and its page, a device, and a free page.
KmainCountsDef == [f \in RamDef \cup DevicesDef |-> IF f \in {3, 4, 8, 100} THEN 1 ELSE 0]
=============================================================================
