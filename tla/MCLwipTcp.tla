----------------------------- MODULE MCLwipTcp -----------------------------
(* Small instances of LwipTcpNet.                                          *)
EXTENDS LwipTcpNet

App(write, answers, endings) ==
  [write |-> write, answers |-> answers, endings |-> endings, keepalive |-> FALSE]

MCIss == [cli |-> 3, srv |-> 13]

MCPlans == {
  \* both write and close
  [cli |-> App(2, {"taken", "kept"}, {"close"}), srv |-> App(1, {"taken"}, {"close"})],
  \* more than the window, to an application that keeps it
  [cli |-> App(0, {"taken", "kept"}, {"close"}), srv |-> App(5, {"taken"}, {})],
  \* several segments in flight, one way
  [cli |-> App(3, {"taken"}, {"close"}), srv |-> App(0, {"taken"}, {})],
  \* half-closed connections and refused data
  [cli |-> App(1, {"taken", "refused"}, {"shutdownTx", "shutdownRx"}), srv |-> App(1, {"taken"}, {"shutdownTx"})],
  \* aborts
  [cli |-> App(1, {"taken", "aborted"}, {"close"}), srv |-> [App(1, {"taken"}, {"abort"}) EXCEPT !.keepalive = TRUE]] }

\* The client's bytes lie just below the wrap, the window reaches past it.
WrapIss == [cli |-> 11, srv |-> 3]
WrapPlans == {[cli |-> App(6, {"taken"}, {}), srv |-> App(0, {"taken"}, {})]}

\* The server fills the client's window and closes.
FullPlans == {[cli |-> App(0, {"kept"}, {}), srv |-> App(4, {"taken"}, {"close"})]}
=============================================================================
