-------------------------------- MODULE Url ---------------------------------
(***************************************************************************)
(* What the clients take from the URL of StartNetwork: Whip and Whep       *)
(* (webrtc/whip.cpp, webrtc/whep.cpp), MsPush and MsPull                   *)
(* (webrtc/ms_push.cpp, webrtc/ms_pull.cpp) and RTMP (rtmp/rtmp_pub.hpp).  *)
(* A URL is its scheme and a sequence of words and separators; Ports gives *)
(* the number of a word of digits.                                         *)
(***************************************************************************)
EXTENDS Naturals, Sequences, SequencesExt

CONSTANTS
  Ports    \* word of digits -> its number

Find(s, sep) == SelectInSeq(s, LAMBDA x : x = sep)
Before(s, i) == SubSeq(s, 1, i - 1)
Behind(s, i) == SubSeq(s, i + 1, Len(s))

(* A separator at the end is followed by nothing, not by an empty part.    *)
RECURSIVE StringSplit(_, _)
StringSplit(s, sep) ==
  LET i == Find(s, sep)
  IN  IF s = <<>> THEN <<>>
      ELSE IF i = 0 THEN <<s>>
      ELSE <<Before(s, i)>> \o StringSplit(Behind(s, i), sep)

RemoveSubfix(s, sep) == IF s # <<>> /\ Last(s) = sep THEN Front(s) ELSE s

(* atoi reads the digits in front.                                         *)
Atoi(s) == IF s # <<>> /\ s[1] \in DOMAIN Ports THEN Ports[s[1]] % 65536 ELSE 0

HostOf(s) == IF Find(s, ":") = 0 THEN s ELSE Before(s, Find(s, ":"))
PortOf(s, default) == IF Find(s, ":") = 0 THEN default ELSE Atoi(Behind(s, Find(s, ":")))

Joined(parts) == FlattenSeq([i \in DOMAIN parts |-> <<"/">> \o parts[i]])

Refused == [ok |-> FALSE]

(* Whip and Whep: without a port it is 443, for http too.                  *)
GetHostInfoByUrl(scheme, text) ==
  LET path_vec == StringSplit(text, "/")
  IN  IF scheme \notin {"https://", "http://"} \/ Len(path_vec) < 2 THEN Refused
      ELSE [ok |-> TRUE, https |-> scheme = "https://", host |-> HostOf(path_vec[1]),
            port |-> PortOf(path_vec[1], 443), subpath |-> Joined(Tail(path_vec))]

(* The last value of a parameter; a parameter without "=" is passed over.  *)
Param(params, name) ==
  LET named == SelectSeq(params, LAMBDA p : Find(p, "=") > 0 /\ Before(p, Find(p, "=")) = <<name>>)
  IN  IF named = <<>> THEN <<>> ELSE Behind(Last(named), Find(Last(named), "="))

(* Mutant of GetMsHostInfoByUrl: a slash at the end stays.                 *)
GetMsHostInfoByUrlSlash(scheme, text) ==
  LET host == IF Find(text, "/") > 0 THEN Before(text, Find(text, "/"))
              ELSE Before(text, Find(text, "?"))
      q == Find(text, "?")
      params == StringSplit(Behind(text, q), "&")
  IN  IF scheme # "https://" \/ Find(host, ":") = 0 \/ q = 0 THEN Refused
      ELSE [ok |-> TRUE, host |-> HostOf(host), port |-> PortOf(host, 0),
            roomId |-> Param(params, "roomId"), userId |-> Param(params, "userId"),
            vpid |-> Param(params, "vpid"), apid |-> Param(params, "apid")]

(* MsPush and MsPull: the host ends at the first slash, or at the question *)
(* mark if there is none; only https, only with a port.  StartNetwork does *)
(* not look at a refusal and goes on with what was set before: the values  *)
(* of a refusal are left out.  MsPush has no vpid and apid.                *)
GetMsHostInfoByUrl(scheme, text) ==
  LET url == RemoveSubfix(text, "/")
      host == IF Find(url, "/") > 0 THEN Before(url, Find(url, "/"))
              ELSE Before(url, Find(url, "?"))
      q == Find(url, "?")
      params == StringSplit(Behind(url, q), "&")
  IN  IF scheme # "https://" \/ Find(host, ":") = 0 \/ q = 0 THEN Refused
      ELSE [ok |-> TRUE, host |-> HostOf(host), port |-> PortOf(host, 0),
            roomId |-> Param(params, "roomId"), userId |-> Param(params, "userId"),
            vpid |-> Param(params, "vpid"), apid |-> Param(params, "apid")]

(* RTMP: the last part is the stream, those between host and stream the    *)
(* app.  Without such parts app_sz is read as it lies on the stack.        *)
GetRtmpUrlInfo(scheme, text) ==
  LET info_vec == StringSplit(text, "/")
      between == SubSeq(info_vec, 2, Len(info_vec) - 1)
  IN  IF scheme # "rtmp://" \/ Len(info_vec) < 2 THEN Refused
      ELSE [ok |-> TRUE, host |-> HostOf(info_vec[1]), port |-> PortOf(info_vec[1], 1935),
            tc_url |-> info_vec[1] \o Joined(between),
            app |-> IF between = <<>> THEN <<"uninitialised">> ELSE Tail(Joined(between)),
            streamname |-> Last(info_vec)]
=============================================================================
