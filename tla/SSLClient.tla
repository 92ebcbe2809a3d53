------------------------------ MODULE SSLClient -------------------------------
(***************************************************************************)
(* The TLS client between the MQTT library and the modem's TCP socket      *)
(* (lib/SSLClient: SSLClient.cpp, ssl_client.cpp).  One task at a time     *)
(* calls it (its callers hold SERIAL_LOCK), so that the calls that do not  *)
(* wait are one step each; connect() and write() have loops and are not.   *)
(*                                                                         *)
(* mbedTLS, the socket and the server are external: every call into them   *)
(* may fail.  No certificate is configured by the program, so mbedTLS      *)
(* verifies nothing and its verification result is 0 after a handshake.    *)
(***************************************************************************)
EXTENDS Integers, Sequences

CONSTANTS
  MaxBytes,         \* bound: bytes the server sends in a session
  MaxRead,          \* bound: size of a read
  HandshakeTimeout  \* sslclient->handshake_timeout

ASSUME SSLConstantsOK ==
  MaxBytes \in Nat /\ MaxRead \in Nat \ {0} /\ HandshakeTimeout \in Nat

VARIABLES
  connected,  \* _connected
  peek,       \* _peek: a byte, or 0 for -1
  context,    \* ssl_ctx and ssl_conf: "blank", "set up" or "established"
  socket,     \* sslclient->client is connected
  link,       \* the session: "up", "closed" by the server or "broken"
  sent,       \* bytes the server has sent in this session
  taken,      \* bytes of it that mbedtls_ssl_read() has given
  got,        \* history: the bytes read() has returned in this session
  pc,         \* where connect() or write() is
  elapsed     \* millis() - handshake_start_time

session == <<link, sent>>
vars == <<connected, peek, context, socket, session, taken, got, pc, elapsed>>

TypeOK ==
  /\ connected \in BOOLEAN
  /\ peek \in 0 .. MaxBytes
  /\ context \in {"blank", "set up", "established"}
  /\ socket \in BOOLEAN
  /\ link \in {"up", "closed", "broken"}
  /\ sent \in 0 .. MaxBytes /\ taken \in 0 .. MaxBytes
  /\ got \in Seq(1 .. MaxBytes)
  /\ pc \in {"idle", "configure", "handshake", "writing"}
  /\ elapsed \in 0 .. HandshakeTimeout + 1

\* ssl_init() and the constructor.
Init ==
  /\ connected = FALSE /\ peek = 0
  /\ context = "blank" /\ socket = FALSE
  /\ link = "up" /\ sent = 0 /\ taken = 0 /\ got = <<>>
  /\ pc = "idle" /\ elapsed = 0

-----------------------------------------------------------------------------
(* The server and the network *)

ServerSends ==
  /\ context = "established" /\ link = "up" /\ sent < MaxBytes
  /\ sent' = sent + 1
  /\ UNCHANGED <<connected, peek, context, socket, link, taken, got, pc, elapsed>>

\* The server's close_notify, or a TCP connection that goes without a word.
ServerEnds ==
  /\ context = "established" /\ link = "up"
  /\ link' \in {"closed", "broken"}
  /\ UNCHANGED <<connected, peek, context, socket, sent, taken, got, pc, elapsed>>

-----------------------------------------------------------------------------
(* stop() *)

StopSslSocket == socket' = FALSE /\ context' = "blank"

\* Mutant: the contexts are not freed.
StopKeepingContext == connected' = FALSE /\ peek' = 0 /\ UNCHANGED <<socket, context>>

StopEffect == connected' = FALSE /\ peek' = 0 /\ StopSslSocket

Stop ==
  /\ pc = "idle"
  /\ StopEffect
  /\ UNCHANGED <<session, taken, got, pc, elapsed>>

-----------------------------------------------------------------------------
(* connect() *)

\* start_ssl_client() returned an error.
ConnectFails ==
  /\ StopEffect
  /\ pc' = "idle"
  /\ UNCHANGED <<session, taken, got, elapsed>>

\* The MQTT library closes a connection before it opens the next.
Connect ==
  /\ pc = "idle" /\ ~connected
  /\ \/ socket' = TRUE /\ pc' = "configure"
        /\ UNCHANGED <<connected, peek, context, session, taken, got, elapsed>>
     \/ ConnectFails

\* From the random number generator's seed to the I/O callbacks; each call
\* may fail, the ones after mbedtls_ssl_config_defaults on a configuration
\* that is partly there.
Configure ==
  /\ pc = "configure"
  /\ \/ context' = "set up" /\ elapsed' = 0 /\ pc' = "handshake"
        /\ UNCHANGED <<connected, peek, socket, session, taken, got>>
     \/ ConnectFails

\* Mutant: the timeout of the handshake is not looked at.
HandshakeWaitsForEver ==
  /\ pc = "handshake"
  /\ elapsed' \in {elapsed, HandshakeTimeout}
  /\ UNCHANGED <<connected, peek, context, socket, session, taken, got, pc>>

\* Mutant: the time is looked at before the call and not after it, so that one
\* call more is made.
HandshakeWaitsOnceMore ==
  /\ pc = "handshake" /\ elapsed <= HandshakeTimeout + 1
  /\ elapsed' = elapsed + 1
  /\ UNCHANGED <<connected, peek, context, socket, session, taken, got, pc>>

\* mbedtls_ssl_handshake() wants more and the time is not up: vTaskDelay(10).
HandshakeWaits ==
  /\ pc = "handshake" /\ elapsed <= HandshakeTimeout
  /\ elapsed' = elapsed + 1
  /\ UNCHANGED <<connected, peek, context, socket, session, taken, got, pc>>

\* It fails, or wants more when the time is up.
HandshakeFails == pc = "handshake" /\ ConnectFails

\* It is done: a session with nothing sent yet.
HandshakeDone ==
  /\ pc = "handshake"
  /\ context' = "established" /\ connected' = TRUE /\ pc' = "idle"
  /\ link' = "up" /\ sent' = 0 /\ taken' = 0 /\ got' = <<>>
  /\ UNCHANGED <<peek, socket, elapsed>>

-----------------------------------------------------------------------------
(* Reading *)

Unread == sent - taken

\* What data_to_read() may say of mbedtls_ssl_read(): -1 (an error), 0 (no byte: it wants to
\* read) or how many bytes a record has ready.  A context that was freed is
\* bad input; close_notify comes after the bytes sent before it; a TCP
\* connection that is gone reads as one that is silent, or fails.
Readable ==
  {res \in -1 .. MaxBytes :
     CASE context = "blank" -> res = -1
       [] link = "broken"   -> res <= Unread
       [] Unread > 0        -> res \in 1 .. Unread
       [] link = "up"       -> res = 0
       [] OTHER             -> res = -1}

\* The numbers of n bytes from the first on.
Bytes(first, n) == [i \in 1 .. n |-> first + i - 1]

\* available() when data_to_read() says res; stop() takes the byte looked
\* at away, yet counts it.
AvailableResult(res) ==
  LET peeked == IF peek # 0 THEN 1 ELSE 0
  IN IF ~connected THEN peeked
     ELSE IF res < 0 THEN (IF peeked = 1 THEN 1 ELSE res)
     ELSE res + peeked

\* Mutant: an error of mbedtls_ssl_read() is taken for "nothing to read".
AvailableIgnoringErrors(res) == UNCHANGED <<connected, peek, context, socket>>

AvailableEffect(res) ==
  IF connected /\ res < 0 THEN StopEffect
                          ELSE UNCHANGED <<connected, peek, context, socket>>

\* available(), and connected(), which is a read of no bytes.
Available ==
  /\ pc = "idle"
  /\ \E res \in Readable : AvailableEffect(res)
  /\ UNCHANGED <<session, taken, got, pc, elapsed>>

\* Mutant: the byte looked at stays, and is read again.
ReadKeepingPeek(size) ==
  /\ connected /\ peek # 0
  /\ got' = Append(got, peek)
  /\ UNCHANGED <<connected, peek, context, socket, taken>>

\* The byte looked at is all that was asked for or all there is.
ReadPeeked(size) ==
  /\ connected /\ peek # 0
  /\ \E res \in Readable : res = 0 \/ (res > 0 /\ size = 1)
  /\ got' = Append(got, peek) /\ peek' = 0
  /\ UNCHANGED <<connected, context, socket, taken>>

\* The byte looked at, if any, and then those of get_ssl_receive().
ReadBytes(size) ==
  LET peeked == IF peek # 0 THEN <<peek>> ELSE <<>>
  IN /\ connected
     /\ \E n \in Readable \ {-1, 0} :
          /\ Len(peeked) + n <= size
          /\ got' = got \o peeked \o Bytes(taken + 1, n)
          /\ taken' = taken + n
     /\ peek' = 0
     /\ UNCHANGED <<connected, context, socket>>

\* Nothing to read; or available() stopped the connection, and with a byte
\* looked at, get_ssl_receive() then fails on the freed context.
ReadNothing ==
  /\ \E res \in Readable :
       /\ AvailableResult(res) <= 0 \/ res < 0
       /\ AvailableEffect(res)
  /\ UNCHANGED <<taken, got>>

\* read(buf, size)
Read ==
  /\ pc = "idle"
  /\ \/ ReadNothing
     \/ \E size \in 1 .. MaxRead : ReadPeeked(size) \/ ReadBytes(size)
  /\ UNCHANGED <<session, pc, elapsed>>

\* peek(): read() of one byte, which is kept for the next read().
Peek ==
  /\ pc = "idle" /\ peek = 0
  /\ \/ ReadNothing
     \/ /\ connected /\ (\E res \in Readable : res > 0)
        /\ peek' = taken + 1 /\ taken' = taken + 1
        /\ UNCHANGED <<connected, context, socket, got>>
  /\ UNCHANGED <<session, pc, elapsed>>

-----------------------------------------------------------------------------
(* write() *)

Write ==
  /\ pc = "idle" /\ connected
  /\ pc' = "writing"
  /\ UNCHANGED <<connected, peek, context, socket, session, taken, got, elapsed>>

\* mbedtls_ssl_write() takes bytes, or fails; while it wants to read or to
\* write, send_ssl_data() calls it again, without end.
WriteReturns ==
  /\ pc = "writing"
  /\ pc' = "idle"
  /\ \/ UNCHANGED <<connected, peek, context, socket>>
     \/ StopEffect
  /\ UNCHANGED <<session, taken, got, elapsed>>

-----------------------------------------------------------------------------
Next ==
  \/ Connect \/ Configure \/ HandshakeWaits \/ HandshakeFails \/ HandshakeDone
  \/ Available \/ Read \/ Peek \/ Write \/ WriteReturns \/ Stop
  \/ ServerSends \/ ServerEnds

\* A task in connect() goes on; the caller polls for bytes and reads them;
\* a socket takes what is written or fails.
Fairness ==
  /\ WF_vars(Configure)
  /\ WF_vars(HandshakeWaits \/ (HandshakeFails /\ elapsed > HandshakeTimeout))
  /\ WF_vars(WriteReturns)
  /\ SF_vars(Available) /\ SF_vars(Read)

Spec == Init /\ [][Next]_vars /\ Fairness

-----------------------------------------------------------------------------
(* Properties *)

\* The history has every byte taken from mbedTLS, in order, but the one that
\* peek() keeps.
ReadsInOrder ==
  /\ got = Bytes(1, Len(got))
  /\ taken <= sent
  /\ taken = IF peek = 0 THEN Len(got) ELSE Len(got) + 1
  /\ peek # 0 => peek = taken

\* What is connected when.  With TypeOK an inductive invariant.
StagesFit ==
  /\ connected <=> context = "established"
  /\ connected => pc \in {"idle", "writing"} /\ ReadsInOrder
  /\ ~connected => peek = 0 /\ pc # "writing"
  /\ pc = "idle" /\ ~connected => context = "blank" /\ ~socket

IInv == TypeOK /\ StagesFit

S == INSTANCE ISocket WITH open <- connected

\* The MQTT library gets the bytes of the server, each once and in order,
\* whatever mix of peek(), available() and reads of any size asks for them.
ImplementsISocket == S!Spec

\* No path through connect(), read(), write() and stop() that ends without a
\* connection leaves a part of one behind: the socket is stopped, the
\* contexts are freed (the next handshake starts from blank ones) and no
\* byte of the old session waits to be read in the next.
NothingLeftBehind ==
  ~connected /\ pc = "idle" => context = "blank" /\ ~socket /\ peek = 0

\* connect() returns, even if the server never answers.
ConnectReturns == pc \in {"configure", "handshake"} ~> pc = "idle"

\* When the server has closed the session, the client notices in the end,
\* though there may be bytes to read before its close_notify.
CloseNoticed == connected /\ link = "closed" ~> ~connected

=============================================================================
