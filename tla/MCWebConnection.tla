-------------------------- MODULE MCWebConnection --------------------------
(* One peer that sends one request. *)
EXTENDS WebConnection

\* With and without a body and "Expect"; a body cut short, or with bytes
\* after it; an empty request line.
MCRequests ==
  [head: {"get", ""}, length: {0, 2}, expect: BOOLEAN, body: 0..3]

MCGet == {[head |-> "get", length |-> 0, expect |-> FALSE, body |-> 0]}

MCLengths == {0, 2, 5}

MCFaults == {{}, {"nomem"}, {"noroute"}}
MCNone   == {{}}
=============================================================================
