---------------------------- MODULE AdapterSocket ----------------------------
(***************************************************************************)
(* The adapter socket of a tunnel: AdapterSocket with the two subclasses   *)
(* QLadder uses, DirectAdapter and ShadowsocksAdapter with the "origin"    *)
(* obfuscaters, on top of NWTCPSocket.  Both become ready as soon as they  *)
(* are connected.  Encryption is abstracted except for the IV that the     *)
(* remote sends first: until CryptoStreamProcessor has all of it, a read   *)
(* yields empty data.                                                      *)
(***************************************************************************)
EXTENDS NWTCPSocket

VARIABLES
  hasAdapter,  \* Tunnel.adapterSocket # nil
  aKind,       \* "direct" or "shadowsocks"
  aStatus,     \* AdapterSocket.status
  aCancelled,  \* AdapterSocket.isCancelled
  readIV       \* CryptoStreamProcessor.readIV # nil

aVars == <<hasAdapter, aKind, aStatus, aCancelled, readIV>>

TypeOKAdapter ==
  /\ hasAdapter \in BOOLEAN
  /\ aKind \in {"direct", "shadowsocks"}
  /\ aStatus \in {"invalid", "connecting", "established", "disconnecting", "closed"}
  /\ aCancelled \in BOOLEAN
  /\ readIV \in BOOLEAN

InitAdapter ==
  /\ hasAdapter = FALSE
  /\ aKind = "direct"
  /\ aStatus = "invalid"
  /\ aCancelled = FALSE
  /\ readIV = FALSE

-----------------------------------------------------------------------------

\* AdapterFactory.getAdapterFor(session:) and openSocketWith(session:)
AdapterOpen(kind) ==
  /\ hasAdapter' = TRUE
  /\ aKind' = kind
  /\ aStatus' = "connecting"
  /\ RemoteConnect
  /\ UNCHANGED <<aCancelled, readIV>>

\* readData
AdapterRead == IF aCancelled THEN UNCHANGED nReads ELSE RemoteRead

\* write(data:)
AdapterWrite(d) ==
  IF aCancelled THEN UNCHANGED <<nWrites, nWritePending>> ELSE RemoteWrite(d)

\* isDisconnected
AdapterDisconnected == aStatus \in {"closed", "invalid"}

\* disconnect(becauseOf:): didDisconnectWith is called inside when the raw
\* socket answers at once.
AdapterDisconnect ==
  /\ aCancelled' = TRUE
  /\ aStatus' = IF AnswersAtOnce THEN "closed" ELSE "disconnecting"
  /\ RemoteDisconnect

\* forceDisconnect(becauseOf:)
AdapterForceDisconnect ==
  /\ aCancelled' = TRUE
  /\ aStatus' = IF AnswersAtOnce THEN "closed" ELSE "disconnecting"
  /\ RemoteForceDisconnect

\* CryptoStreamProcessor.input: a chunk of the response completes the IV, a
\* read of IV bytes only may or may not.
Decrypts(d) ==
  IF aKind = "shadowsocks" /\ ~readIV
    THEN IF d = IVOnly THEN readIV' \in BOOLEAN ELSE readIV' = TRUE
    ELSE UNCHANGED readIV

=============================================================================
