------------------------------ MODULE PppIpcp ------------------------------
(* The callbacks of IPCP (ipcp.c) and what they do to the interface of the
   peer (ppp.c). Options are functions from the options present to their
   values; an address is a number, 0 the unknown one. p.cfg is the peer's
   configuration: its own address and the one it gives (0: to be learnt), the
   name server it offers, whether it asks for one, and its number of slots for
   header compression (0: none). CI_ADDRS, the old form of the address option,
   is asked for when the new one was rejected, and rejected in turn. *)
EXTENDS Naturals, Sequences, FiniteSets, Functions

ConfAck == "ConfAck"
ConfNak == "ConfNak"
ConfRej == "ConfRej"

None == <<>>

\* What a request is answered with: rejections first, then proposals. verdict
\* maps each option asked to its verdict, asked and offer to its values.
Answer(verdict, asked, offer) ==
  LET Those(code) == {o \in DOMAIN verdict : verdict[o] = code}
  IN CASE Those(ConfRej) # {} -> [code |-> ConfRej, opts |-> Restrict(asked, Those(ConfRej))]
       [] Those(ConfRej) = {} /\ Those(ConfNak) # {} ->
            [code |-> ConfNak, opts |-> [o \in Those(ConfNak) |-> offer[o]]]
       [] OTHER -> [code |-> ConfAck, opts |-> asked]

Has(opts, o) == o \in DOMAIN opts

\* Every option of r was asked for with that value.
AmongAsked(r, asked) == \A o \in DOMAIN r : Has(asked, o) /\ asked[o] = r[o]

AcceptLocal(p) == p.cfg.our = 0
AcceptRemote(p) == p.cfg.his = 0

IpcpResetCi(p) ==
  [p EXCEPT !.askAddr = TRUE, !.heard = FALSE,
            !.igo = [addr |-> TRUE, old |-> FALSE, our |-> p.cfg.our, his |-> p.cfg.his,
                     vj |-> p.cfg.slots > 0, slots |-> p.cfg.slots,
                     dns |-> p.cfg.wantsDns, server |-> 0]]

\* ipcp_cilen falls back to the old address option.
IpcpPrepareCi(p) ==
  LET addrs == IF p.igo.addr \/ p.igo.old THEN p
               ELSE [p EXCEPT !.igo.addr = TRUE, !.igo.old = TRUE]
  IN IF p.cfg.slots = 0 \/ p.igo.vj \/ p.heard THEN addrs
     ELSE [addrs EXCEPT !.igo.vj = TRUE]

IpcpAddCi(p) ==
  LET go == p.igo
      present == (IF ~go.addr THEN {} ELSE IF go.old THEN {"addrs"} ELSE {"addr"})
                   \cup (IF go.vj THEN {"vj"} ELSE {}) \cup (IF go.dns THEN {"dns"} ELSE {})
  IN [o \in present |-> CASE o = "addr" -> go.our
                          [] o = "addrs" -> <<go.our, go.his>>
                          [] o = "vj" -> go.slots
                          [] o = "dns" -> go.server]

IpcpAckCi(p, opts) == opts = IpcpAddCi(p)

\* Options change only while they are being negotiated.
Adopt(p, go) == IF p.ipcp.state = "OPENED" THEN p ELSE [p EXCEPT !.igo = go]

IpcpNakCi(p, opts) ==
  LET go == p.igo
      our == IF Has(opts, "addr") /\ AcceptLocal(p) /\ opts["addr"] # 0 THEN opts["addr"] ELSE go.our
      addr == IF ~Has(opts, "addr") THEN go
              ELSE IF go.addr THEN [go EXCEPT !.our = our]
              ELSE [go EXCEPT !.our = our, !.old = FALSE, !.addr = our # 0]
      vj == IF Has(opts, "vj") /\ go.vj /\ opts["vj"] < go.slots THEN [addr EXCEPT !.slots = opts["vj"]] ELSE addr
      dns == IF Has(opts, "dns") /\ go.dns THEN [vj EXCEPT !.server = opts["dns"]] ELSE vj
  IN [ok |-> Has(opts, "addr") /\ go.addr => ~go.old,
      peer |-> Adopt(p, dns)]

IpcpRejCi(p, opts) ==
  [ok |-> AmongAsked(opts, IpcpAddCi(p)),
   peer |-> Adopt(p, [p.igo EXCEPT !.addr = @ /\ ~Has(opts, "addr") /\ ~Has(opts, "addrs"),
                                   !.vj = @ /\ ~Has(opts, "vj"), !.dns = @ /\ ~Has(opts, "dns")])]

AddrVerdict(p, v) ==
  IF v = p.cfg.his THEN IF v = 0 THEN ConfRej ELSE ConfAck
  ELSE IF v = 0 \/ ~AcceptRemote(p) THEN ConfNak ELSE ConfAck

OptionVerdict(p, o, v) ==
  CASE o = "addr" -> AddrVerdict(p, v)
    [] o = "dns" -> IF p.cfg.dns = 0 THEN ConfRej ELSE IF v = p.cfg.dns THEN ConfAck ELSE ConfNak
    [] o = "vj" -> IF p.cfg.slots = 0 THEN ConfRej ELSE IF v > p.cfg.slots THEN ConfNak ELSE ConfAck
    [] OTHER -> ConfRej

\* Mutant: compresses with the own number of slots.
OwnSlots(p, asked) == p.cfg.slots

\* The slots the peer may be sent compressed headers for.
HisSlots(p, asked) == asked["vj"]

IpcpReqCi(p, asked, reject) ==
  LET verdict == [o \in DOMAIN asked |-> OptionVerdict(p, o, asked[o])]
      offer == [addr |-> p.cfg.his, dns |-> p.cfg.dns, vj |-> p.cfg.slots]
      firm == [o \in DOMAIN verdict |->
                 IF reject /\ verdict[o] = ConfNak THEN ConfRej ELSE verdict[o]]
      a == Answer(firm, asked, offer)
      known == Has(asked, "addr") /\ verdict["addr"] # ConfRej
      ho == [addr |-> known, his |-> IF known THEN asked["addr"] ELSE 0,
             slots |-> IF Has(asked, "vj") /\ verdict["vj"] # ConfRej THEN HisSlots(p, asked) ELSE 0]
      lost == Has(asked, "addr") /\ verdict["addr"] = ConfRej
      demands == a.code # ConfRej /\ ~known /\ p.askAddr /\ ~lost /\ ~reject
      q == [p EXCEPT !.heard = TRUE, !.iho = ho,
                     !.askAddr = @ /\ ~lost /\ ~(demands /\ a.code = ConfAck)]
      mine == [addr |-> p.cfg.his]
  IN IF ~demands THEN [code |-> a.code, opts |-> a.opts, peer |-> q]
     ELSE [code |-> ConfNak, peer |-> q,
           opts |-> IF a.code = ConfAck THEN mine
                    ELSE [o \in DOMAIN a.opts \cup {"addr"} |->
                            IF o = "addr" THEN p.cfg.his ELSE a.opts[o]]]

\* np_up, sifvjcomp, sifaddr, sifup and sifdefaultroute; the status callback
\* tells the application. The close for a missing address is fsm_close.
IpcpUp(p, CloseIpcp(_)) ==
  LET his == IF p.iho.addr THEN p.iho.his ELSE p.cfg.his
      q == [p EXCEPT !.npUp = @ + 1, !.iho.his = his]
  IN IF his = 0 \/ p.igo.our = 0 \/ ~p.open THEN CloseIpcp(q)
     ELSE [q EXCEPT !.addrs = <<p.igo.our, his>>, !.vj = p.iho.slots, !.ifUp = TRUE,
                    !.errCode = "none", !.told = "up", !.route = TRUE]

IpcpDown(p) ==
  LET q == [p EXCEPT !.npUp = @ - 1, !.vj = 0, !.route = FALSE]
  IN IF ~p.open THEN q
     ELSE [q EXCEPT !.ifUp = FALSE, !.told = "down", !.addrs = None]
=============================================================================
