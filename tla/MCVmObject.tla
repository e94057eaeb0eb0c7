----------------------------- MODULE MCVmObject -----------------------------
(* VmObject for TLC: small sets of objects, pages and threads, and the     *)
(* calls of the pager that each run allows.                                *)
EXTENDS VmObject, TLC

Symmetric == Permutations(Threads) \cup Permutations(Objects)
             \cup Permutations(Offsets)

Supply == [call : {"data_supply"}, i : Offsets, lock : BOOLEAN]
Errors == [call : {"data_error", "data_unavailable"}, i : Offsets]
Locks == [call : {"lock_request"}, i : Offsets, return : BOOLEAN, flush : {TRUE},
          prot : {"same"}]
         \cup [call : {"lock_request"}, i : Offsets, return : {FALSE}, flush : {FALSE},
               prot : {"none", "write"}]
         \cup [call : {"lock_request"}, i : Offsets, return : {TRUE}, flush : {FALSE},
               prot : {"same", "write"}]
Attributes == [call : {"set_attributes"}, ready : BOOLEAN, may_cache : BOOLEAN]
Destroy == {[call |-> "destroy"]}

AllCalls == Supply \cup Errors \cup Locks \cup Attributes \cup Destroy

\* Bound: two threads at a time work with two pages and make MaxCalls calls,
\* three work with one page and make one call less.
UnusedPage(i) ==
    /\ \A o \in Objects : page[o][i] = NoPage
    /\ \A t \in Threads : "i" \in DOMAIN th[t].op => th[t].op.i # i
Small ==
    \/ Cardinality({t \in Threads : th[t].pc # "idle"}) <= 2
    \/ calls < MaxCalls /\ \E i \in Offsets : UnusedPage(i)
=============================================================================
