-------------------------------- MODULE ISim --------------------------------
(***************************************************************************)
(* The modem as the tracker sees it: the interface of networking/ISIM.h,   *)
(* with what a call of init() or sendActPosition() may do before it        *)
(* returns, and what each status code then says of it.  Modem implements   *)
(* this; Tracker is built on it.                                           *)
(***************************************************************************)

VARIABLES
  call,       \* the call in progress: "none", "init" or "send"
  handed,     \* this send gave a position to the state manager
  published,  \* this send's message reached the broker
  res         \* the status code of the last call, "none" before one returns

vars == <<call, handed, published, res>>

InitCodes == {"Ok", "GSM_CONNECTION_ERROR", "MQTT_CONNECTION_ERROR", "GPS_CONNECTION_ERROR"}

\* sendActPosition() before it has a position to hand over.
NoPositionCodes ==
  {"UNKNOWN_ERROR", "MODEM_NOT_CONNECTED", "READ_GPS_COORDINATES_FAILED",
   "GPS_COORDINATES_OUT_OF_RANGE", "GPS_ACCURACY_TOO_LOW"}

Codes == InitCodes \union NoPositionCodes \union {"SENDING_DATA_FAILED", "none"}

TypeOK ==
  /\ call \in {"none", "init", "send"}
  /\ handed \in BOOLEAN
  /\ published \in BOOLEAN
  /\ res \in Codes

Init == call = "none" /\ handed = FALSE /\ published = FALSE /\ res = "none"

Call(c) ==
  /\ call = "none"
  /\ call' = c
  /\ handed' = FALSE /\ published' = FALSE
  /\ UNCHANGED res

\* updatePosition() with the position that was read.
HandPosition ==
  /\ call = "send" /\ ~handed
  /\ handed' = TRUE
  /\ UNCHANGED <<call, published, res>>

\* The message arrives, whether or not the sender gets to know.
Publish ==
  /\ handed /\ ~published
  /\ published' = TRUE
  /\ UNCHANGED <<call, handed, res>>

\* The codes the call may return with now.
ReturnCodes ==
  CASE call = "init" -> InitCodes
    [] call = "send" /\ ~handed -> NoPositionCodes
    [] call = "send" /\ handed ->
         {"SENDING_DATA_FAILED"} \union {c \in {"Ok"} : published}

Return(code) ==
  /\ call # "none"
  /\ code \in ReturnCodes
  /\ call' = "none"
  /\ res' = code
  /\ UNCHANGED <<handed, published>>

PowerDown == call' = "none" /\ handed' = FALSE /\ published' = FALSE /\ res' = "none"

Next ==
  \/ Call("init") \/ Call("send")
  \/ HandPosition
  \/ Publish
  \/ \E code \in Codes : Return(code)
  \/ PowerDown

Spec == Init /\ [][Next]_vars
=============================================================================
