------------------------------ MODULE HidDevice ------------------------------
(***************************************************************************)
(* The HID device profile of BTstack, hid_device.c, between L2CAP and the  *)
(* application: two L2CAP channels to the one host, the HIDP transactions  *)
(* the host starts, and the application's request for a moment to send.    *)
(*                                                                         *)
(* The handlers run in the BTstack run loop.  L2CAP may deliver a          *)
(* can-send-now event inside the call that asked for it; the code changes  *)
(* its state before it asks, so the event is an action that may follow at  *)
(* once, except in hid_device_send_prepared_control_message(): see         *)
(* HidHandshake.                                                           *)
(*                                                                         *)
(* Of L2CAP's own state only what the profile waits for is here.  A channel*)
(* the host has opened is reported closed, never failed, when it breaks    *)
(* (l2cap.c:2921).  The host does not close one channel while the other is *)
(* still being configured, except by losing the whole ACL link.            *)
(***************************************************************************)
EXTENDS Naturals

CONSTANT
    HostReopens \* may the host reopen one channel and keep the other open?

ASSUME HidAssumption == HostReopens \in BOOLEAN

VARIABLES
    channel,        \* "none": the cid is 0; "accepted" and "open"
    hidConnected,   \* hid_device.connected
    hidState,       \* "idle", or "handshake" for the HID_DEVICE_W2 states
    requested,      \* user_request_can_send_now
    waiting         \* the channels' waiting_for_can_send_now in L2CAP

hidVars == <<channel, hidConnected, hidState, requested, waiting>>

Channels == {"control", "interrupt"}

HidInit ==
    /\ channel = [ch \in Channels |-> "none"]
    /\ hidConnected = FALSE
    /\ hidState = "idle"
    /\ requested = FALSE
    /\ waiting = [ch \in Channels |-> FALSE]

BothChannels == \A ch \in Channels : channel[ch] # "none"

\* l2cap_request_can_send_now_event() for a channel that exists, or not.
Await(w, ch) == IF channel[ch] = "none" THEN w ELSE [w EXCEPT ![ch] = TRUE]

-----------------------------------------------------------------------------
(* Channels.                                                               *)

\* L2CAP_EVENT_INCOMING_CONNECTION: the first channel of a link clears the
\* singleton.
HidIncoming(ch) ==
    /\ channel[ch] = "none"
    /\ HostReopens \/ ~hidConnected
    /\ channel' = [channel EXCEPT ![ch] = "accepted"]
    /\ waiting' = [waiting EXCEPT ![ch] = FALSE]
    /\ IF \A c \in Channels : channel[c] = "none"
       THEN hidConnected' = FALSE /\ hidState' = "idle" /\ requested' = FALSE
       ELSE UNCHANGED <<hidConnected, hidState, requested>>

\* A fault: a reopened channel counts as a new connection.
TellsOpenedAgain == BothChannels

\* L2CAP_EVENT_CHANNEL_OPENED.  The application is told of the connection
\* when the profile knows both channels, even if one is not open yet.
HidTellsOpened == ~hidConnected /\ BothChannels

HidOpened(ch) ==
    /\ channel[ch] = "accepted"
    /\ channel' = [channel EXCEPT ![ch] = "open"]
    /\ hidConnected' = (hidConnected \/ HidTellsOpened)
    /\ UNCHANGED <<hidState, requested, waiting>>

\* L2CAP_EVENT_CHANNEL_CLOSED for the channels of S, of one channel or of
\* the whole link; the application is told when none is left.
HidTellsClosed(S) == \A ch \in Channels \ S : channel[ch] = "none"

HidClosed(S) ==
    /\ S # {}
    /\ \A ch \in S : channel[ch] # "none"
    /\ HidTellsClosed(S) \/ \A ch \in Channels : channel[ch] # "accepted"
    /\ channel' = [ch \in Channels |-> IF ch \in S THEN "none" ELSE channel[ch]]
    /\ waiting' = [ch \in Channels |-> ch \notin S /\ waiting[ch]]
    /\ hidConnected' = (hidConnected /\ ~HidTellsClosed(S))
    /\ UNCHANGED <<hidState, requested>>

-----------------------------------------------------------------------------
(* HIDP messages and sending.                                              *)

\* GET_REPORT, SET_REPORT, GET_PROTOCOL, SET_PROTOCOL or an unsupported
\* message: its answer is due at the next can-send-now event.  Malformed
\* protocol messages set the state and do not ask for the event.
HidTransaction(asks) ==
    /\ \E ch \in Channels : channel[ch] = "open"
    /\ hidState' = "handshake"
    /\ waiting' = IF asks THEN Await(waiting, "control") ELSE waiting
    /\ UNCHANGED <<channel, hidConnected, requested>>

\* hid_device_request_can_send_now_event() when the waiting channels are w.
HidRequest(w) ==
    IF channel["interrupt"] = "none"
    THEN waiting' = w /\ UNCHANGED requested
    ELSE waiting' = Await(w, "interrupt") /\ requested' = TRUE

HidCanSend(ch) == waiting[ch] /\ channel[ch] = "open"

\* A fault: the handshake does not pass the application's request on.
HandshakeForgets(ch) ==
    /\ HidCanSend(ch)
    /\ hidState = "handshake"
    /\ hidState' = "idle"
    /\ waiting' = [waiting EXCEPT ![ch] = FALSE]
    /\ UNCHANGED <<channel, hidConnected, requested>>

\* L2CAP_EVENT_CAN_SEND_NOW while a transaction is unanswered: the moment is
\* used for the answer on the control channel, and the application's request
\* is made again there.  That call may deliver further events before the
\* state is idle: they repeat the answer, and may use up the interrupt
\* channel's event; the control channel's is renewed each time.
HidHandshake(ch) ==
    /\ HidCanSend(ch)
    /\ hidState = "handshake"
    /\ hidState' = "idle"
    /\ LET w == [waiting EXCEPT ![ch] = FALSE]
       IN  IF requested
           THEN \/ waiting' = Await(w, "control")
                \/ /\ channel["control"] # "none"
                   /\ waiting' = Await([c \in Channels |-> FALSE], "control")
           ELSE waiting' = w
    /\ UNCHANGED <<channel, hidConnected, requested>>

HidTellsCanSend == hidState = "idle" /\ requested

\* A fault: the request is not cleared when the application is told.
SendNowKeepsRequest(ch) ==
    /\ HidCanSend(ch)
    /\ hidState = "idle"
    /\ waiting' = [waiting EXCEPT ![ch] = FALSE]
    /\ UNCHANGED <<channel, hidConnected, hidState, requested>>

\* The same event otherwise: the application's request is cleared before it
\* is told, if it had one.

HidSendNow(ch) ==
    /\ HidCanSend(ch)
    /\ hidState = "idle"
    /\ waiting' = [waiting EXCEPT ![ch] = FALSE]
    /\ requested' = FALSE
    /\ UNCHANGED <<channel, hidConnected, hidState>>

-----------------------------------------------------------------------------

\* Types of the profile's state.
HidTypeOK ==
    /\ channel \in [Channels -> {"none", "accepted", "open"}]
    /\ hidConnected \in BOOLEAN
    /\ hidState \in {"idle", "handshake"}
    /\ requested \in BOOLEAN
    /\ waiting \in [Channels -> BOOLEAN]
=============================================================================
