--------------------------- MODULE PeerConnection ---------------------------
(***************************************************************************)
(* The life cycle of a PeerConnection (webrtc/peerconnection.cpp) with its *)
(* RtcDtls (webrtc/dtls.cpp): SDP answer, STUN, DTLS handshake, SRTP keys, *)
(* streams.  One action per callback; what a callback writes to the UDP    *)
(* socket goes to up, what it reports to its owner to reports.  Streams    *)
(* and jitter buffers are modules of their own; here a stream is how often *)
(* it was created and whose SSRC it was given.                             *)
(*                                                                         *)
(* OpenSSL is external: dtls_ is its handshake as the DTLS server, and     *)
(* bio_in_ what was written to its memory BIO and not yet read.            *)
(***************************************************************************)
EXTENDS Naturals

CONSTANTS
  StunGap    \* least time between two STUN requests, in ticks (800 ms)

ASSUME PcConstants == StunGap \in Nat \ {0}

VARIABLES
  role,       \* owner: "whip", "whep", "mspush" or "mspull"
  pc_state_,  \* PC_STATE
  timer_on,   \* TimerInterface::running_
  stun_age,   \* time since last_stun_ms_, saturating at StunGap
  ice,        \* dtls_.ice_infos is not empty
  cred,       \* remote_fragment_ and remote_pwd_: "none", "right", "wrong"
  ssrcs,      \* whose SSRCs answer_sdp_.ssrc_info_map_ holds
  dtls_,      \* "new", "accept", "hello" (flight sent) or "finished"
  bio_in_,    \* DTLS messages kept in the BIO
  srtp,       \* how often write_srtp_ and read_srtp_ were created
  streams,    \* kind -> [n: times created, ssrc: whose]
  up,         \* datagrams on the way to the peer
  reports     \* "type" of the Report calls so far

pcVars == <<role, pc_state_, timer_on, stun_age, ice, cred, ssrcs, dtls_,
            bio_in_, srtp, streams, up, reports>>

PC_INIT_STATE == 0
PC_SDP_DONE_STATE == 1
PC_STUN_DONE_STATE == 2
PC_DTLS_DONE_STATE == 3

Roles == {"whip", "whep", "mspush", "mspull"}
SendOnly == {"whip", "mspush"}
SendKinds == {"vsend", "asend"}
RecvKinds == {"vrecv", "arecv"}
NoStream == [n |-> 0, ssrc |-> "none"]

PcInit ==
  /\ role \in Roles
  /\ pc_state_ = PC_INIT_STATE /\ timer_on = FALSE /\ stun_age = StunGap
  /\ ice = FALSE /\ cred = "none" /\ ssrcs = {}
  /\ dtls_ = "new" /\ bio_in_ = {} /\ srtp = 0
  /\ streams = [k \in SendKinds \cup RecvKinds |-> NoStream]
  /\ up = {} /\ reports = {}

-----------------------------------------------------------------------------
(* Streams                                                                 *)

(* SSRCs of the peer's video or audio, or of the offer, which has both.    *)
Ssrcs == {"offer", "vpeer", "apeer"}
Fit(kind, from) ==
  from \cap {"offer", IF kind \in {"vsend", "vrecv"} THEN "vpeer" ELSE "apeer"}

(* Each of kinds is created anew with an SSRC out of from; GetVideoSsrc    *)
(* and GetAudioSsrc take the lowest number of the kind in the map,         *)
(* whosever it is.  Without one there is no stream.                        *)
CreateStreams(kinds, from) ==
  \E src \in [kinds -> Ssrcs \cup {"none"}] :
    /\ \A k \in kinds :
         src[k] \in IF Fit(k, from) = {} THEN {"none"} ELSE Fit(k, from)
    /\ streams' = [k \in DOMAIN streams |->
         IF k \in kinds /\ Fit(k, from) # {}
         THEN [n |-> streams[k].n + 1, ssrc |-> src[k]] ELSE streams[k]]

-----------------------------------------------------------------------------
(* Signalling, called by the owner.                                        *)

(* The first ice-ufrag and ice-pwd that are not empty stay.                *)
CredAfter(lines) ==
  IF cred # "none" THEN cred
  ELSE IF "badcred" \in lines THEN "wrong"
  ELSE IF "cred" \in lines THEN "right" ELSE "none"

(* Mutant of ParseAnswerSdp: the state is not looked at.                   *)
ParseAnswerSdpAgain(lines) ==
  /\ ice' = (ice \/ "cand" \in lines) /\ cred' = CredAfter(lines)
  /\ ssrcs' = LET all == ssrcs \cup (lines \cap Ssrcs)
              IN  IF all = {} THEN {"offer"} ELSE all
  /\ pc_state_' = PC_SDP_DONE_STATE /\ timer_on' = TRUE
  /\ reports' = reports \cup {"sdp"}
  /\ UNCHANGED <<role, stun_age, dtls_, bio_in_, srtp, streams, up>>

(* Mutant of ParseAnswerSdp: the SSRCs of the offer are always added.      *)
ParseAnswerSdpMerged(lines) ==
  /\ ice' = (ice \/ "cand" \in lines) /\ cred' = CredAfter(lines)
  /\ ssrcs' = {"offer"} \cup ssrcs \cup (lines \cap Ssrcs)
  /\ IF pc_state_ >= PC_SDP_DONE_STATE
     THEN UNCHANGED <<pc_state_, timer_on, reports>>
     ELSE /\ pc_state_' = PC_SDP_DONE_STATE /\ timer_on' = TRUE
          /\ reports' = reports \cup {"sdp"}
  /\ UNCHANGED <<role, stun_age, dtls_, bio_in_, srtp, streams, up>>

(* ParseAnswerSdp on a body with these lines: it adds to answer_sdp_ every *)
(* time, but starts the timer for the first body only.  A body without any *)
(* SDP counts as an answer too.                                            *)
ParseAnswerSdp(lines) ==
  /\ ice' = (ice \/ "cand" \in lines) /\ cred' = CredAfter(lines)
  /\ ssrcs' = LET all == ssrcs \cup (lines \cap Ssrcs)
              IN  IF all = {} THEN {"offer"} ELSE all
  /\ IF pc_state_ >= PC_SDP_DONE_STATE
     THEN UNCHANGED <<pc_state_, timer_on, reports>>
     ELSE /\ pc_state_' = PC_SDP_DONE_STATE /\ timer_on' = TRUE
          /\ reports' = reports \cup {"sdp"}
  /\ UNCHANGED <<role, stun_age, dtls_, bio_in_, srtp, streams, up>>

(* Mutant of SetRemoteAndUpdateState: the timer is started here.           *)
SetRemoteAndStart ==
  /\ ice' = TRUE /\ cred' = "right" /\ pc_state_' = PC_SDP_DONE_STATE
  /\ timer_on' = TRUE
  /\ UNCHANGED <<role, stun_age, ssrcs, dtls_, bio_in_, srtp, streams, up,
                 reports>>

(* SetRemoteIcePwd, SetRemoteIceUserFrag, SetRemoteUdpAddress and          *)
(* UpdatePcState(PC_SDP_DONE_STATE), as mediasoup clients call them.       *)
SetRemoteAndUpdateState ==
  /\ ice' = TRUE /\ cred' = "right" /\ pc_state_' = PC_SDP_DONE_STATE
  /\ UNCHANGED <<role, timer_on, stun_age, ssrcs, dtls_, bio_in_, srtp,
                 streams, up, reports>>

StartTimer ==
  /\ timer_on' = TRUE
  /\ UNCHANGED <<role, pc_state_, stun_age, ice, cred, ssrcs, dtls_, bio_in_, srtp,
                 streams, up, reports>>

(* CreateSendStream2 (SSRCs of the offer), or SetVideoSsrc/SetAudioSsrc on *)
(* the answer and CreateVideoRecvStream/CreateAudioRecvStream; says is     *)
(* what the owner reports next.                                            *)
CreateLater(kinds, from, says) ==
  /\ CreateStreams(kinds, from)
  /\ reports' = reports \cup says
  /\ UNCHANGED <<role, pc_state_, timer_on, stun_age, ice, cred, ssrcs, dtls_,
                 bio_in_, srtp, up>>

-----------------------------------------------------------------------------
(* Callbacks of the timer and of the UDP socket.                           *)

(* Mutant of OnTimer: no more requests once one was answered.              *)
OnTimerUntilAnswered ==
  /\ timer_on
  /\ pc_state_ = PC_SDP_DONE_STATE /\ stun_age >= StunGap
  /\ stun_age' = 0 /\ up' = IF ice /\ cred = "right" THEN up \cup {"stun"} ELSE up
  /\ UNCHANGED <<role, pc_state_, timer_on, ice, cred, ssrcs, dtls_, bio_in_, srtp,
                 streams, reports>>

(* The timer: SendStun when the last one is StunGap old.  A request with   *)
(* wrong credentials is not answered and left out.  The reports of the     *)
(* streams that follow change nothing here.                                *)
OnTimer ==
  /\ timer_on
  /\ pc_state_ >= PC_SDP_DONE_STATE /\ stun_age >= StunGap
  /\ stun_age' = 0 /\ up' = IF ice /\ cred = "right" THEN up \cup {"stun"} ELSE up
  /\ UNCHANGED <<role, pc_state_, timer_on, ice, cred, ssrcs, dtls_, bio_in_, srtp,
                 streams, reports>>

Elapse ==
  /\ stun_age < StunGap /\ stun_age' = stun_age + 1
  /\ UNCHANGED <<role, pc_state_, timer_on, ice, cred, ssrcs, dtls_, bio_in_, srtp,
                 streams, up, reports>>

(* Any STUN packet: the first one starts DTLS, which reads what the BIO    *)
(* has kept.                                                               *)
OnReadStun ==
  /\ pc_state_ < PC_STUN_DONE_STATE
  /\ pc_state_' = PC_STUN_DONE_STATE /\ reports' = reports \cup {"stun"}
  /\ IF "ch" \in bio_in_
     THEN dtls_' = "hello" /\ up' = up \cup {"sh"}
     ELSE dtls_' = "accept" /\ UNCHANGED up
  /\ bio_in_' = {}
  /\ UNCHANGED <<role, timer_on, stun_age, ice, cred, ssrcs, srtp, streams>>

(* Mutant of OnDtlsConnected: a repeated call is not recognised.           *)
OnDtlsConnectedAgain ==
  /\ pc_state_' = PC_DTLS_DONE_STATE /\ reports' = reports \cup {"dtls"}
  /\ srtp' = srtp + 1
  /\ IF role = "mspull" THEN UNCHANGED streams
     ELSE CreateStreams(IF role \in SendOnly THEN SendKinds ELSE RecvKinds, ssrcs)

(* Mutant of OnDtlsConnected: each call moves on to the next state.        *)
OnDtlsConnectedNext ==
  /\ pc_state_' = pc_state_ + 1 /\ reports' = reports \cup {"dtls"}
  /\ srtp' = 1
  /\ IF role = "mspull" THEN UNCHANGED streams
     ELSE CreateStreams(IF role \in SendOnly THEN SendKinds ELSE RecvKinds, ssrcs)

(* SetupSRtp exports the keys and calls this for every DTLS message after  *)
(* the end of the handshake; only the first call counts.  The owner hears  *)
(* of it before the keys and streams exist, but in the same callback.      *)
OnDtlsConnected ==
  IF pc_state_ = PC_DTLS_DONE_STATE
  THEN UNCHANGED <<pc_state_, reports, srtp, streams>>
  ELSE /\ pc_state_' = PC_DTLS_DONE_STATE /\ reports' = reports \cup {"dtls"}
       /\ srtp' = srtp + 1
       /\ IF role = "mspull" THEN UNCHANGED streams
          ELSE CreateStreams(IF role \in SendOnly THEN SendKinds ELSE RecvKinds,
                             ssrcs)

(* OnDtlsData before DtlsStart: SSL_read fails, the BIO keeps the message. *)
DtlsEarly(m) ==
  /\ dtls_ = "new"
  /\ bio_in_' = bio_in_ \cup {m}
  /\ UNCHANGED <<pc_state_, dtls_, srtp, streams, up, reports>>

(* OnDtlsData during the handshake.                                        *)
DtlsHandshake(m) ==
  /\ dtls_ \in {"accept", "hello"} /\ m = "ch"
  /\ dtls_' = "hello" /\ up' = up \cup {"sh"}
  /\ UNCHANGED <<pc_state_, bio_in_, srtp, streams, reports>>

(* OnDtlsData with the last flight of the client, or with anything after.  *)
DtlsFinished(m) ==
  /\ (dtls_ = "hello" /\ m = "fin") \/ dtls_ = "finished"
  /\ dtls_' = "finished"
  /\ up' = IF m = "fin" THEN up \cup {"sfin"} ELSE up
  /\ OnDtlsConnected
  /\ UNCHANGED bio_in_

OnReadDtls(m) ==
  /\ DtlsEarly(m) \/ DtlsHandshake(m) \/ DtlsFinished(m)
  /\ UNCHANGED <<role, timer_on, stun_age, ice, cred, ssrcs>>

-----------------------------------------------------------------------------
(* Media: what becomes of a packet.                                        *)

(* HandleRtpData: keys are there and the SSRC belongs to a stream.         *)
RtpAccepted(kind) ==
  /\ pc_state_ = PC_DTLS_DONE_STATE /\ srtp > 0
  /\ streams[kind].ssrc \in {"vpeer", "apeer"}

(* SendVideoPacket or SendAudioPacket, then SendRtpPacket.                 *)
PacketSent(kind) == streams[kind].n > 0 /\ srtp > 0
=============================================================================
