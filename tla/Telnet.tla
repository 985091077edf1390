-------------------------------- MODULE Telnet --------------------------------
(* What a telnet connection makes of the bytes it reads (net/telnet.rs): lines*)
(* for the engine, answers to the client, and whether the client understands  *)
(* GMCP.  Bytes are named by what they stand for; "x" is any that stands for  *)
(* itself alone.  process_bytes goes byte by byte and keeps all of this       *)
(* between reads, so how the bytes are cut into reads is no part of it.       *)
EXTENDS Naturals, Sequences, SequencesExt

Verbs == {"WILL", "WONT", "DO", "DONT"}
Options == {"GMCP", "ECHO"}  \* ECHO for what the server itself has offered, SGA too
Plain == {"x", "CR", "LF", "SB", "SE"} \cup Verbs \cup Options
Bytes == Plain \cup {"IAC"}

Fresh == [iac |-> "Normal", line |-> <<>>, lines |-> <<>>, answers |-> <<>>, gmcp |-> FALSE]
-----------------------------------------------------------------------------
(* process_bytes, one byte of it.  The payload of a subnegotiation goes       *)
(* nowhere, so it is not kept.                                                *)

InNormal(n, byte) ==
    CASE byte = "IAC" -> [n EXCEPT !.iac = "Iac"]
      [] byte = "LF"  -> [n EXCEPT !.lines = Append(@, n.line), !.line = <<>>]
      [] byte = "CR"  -> n
      [] OTHER        -> [n EXCEPT !.line = Append(@, byte)]

AfterIac(n, byte) ==
    CASE byte \in Verbs -> [n EXCEPT !.iac = byte]
      [] byte = "SB"    -> [n EXCEPT !.iac = "SbOpt"]
      [] byte = "IAC"   -> [n EXCEPT !.iac = "Normal", !.line = Append(@, byte)]
      [] OTHER          -> [n EXCEPT !.iac = "Normal"]

Answer(verb, option) ==
    CASE verb = "WILL" -> <<<<IF option = "GMCP" THEN "DO" ELSE "DONT", option>>>>
      [] verb = "DO" /\ option \notin Options -> <<<<"WONT", option>>>>
      [] OTHER -> <<>>
Negotiate(n, option) ==
    [n EXCEPT !.iac = "Normal",
              !.answers = @ \o Answer(n.iac, option),
              !.gmcp = IF option = "GMCP" THEN n.iac \in {"WILL", "DO"} ELSE @]

InSb(n, byte) == IF byte = "IAC" THEN [n EXCEPT !.iac = "SbIac"] ELSE n
AfterSbIac(n, byte) == [n EXCEPT !.iac = IF byte = "SE" THEN "Normal" ELSE "Sb"]

ProcessByte(n, byte) ==
    CASE n.iac = "Normal" -> InNormal(n, byte)
      [] n.iac = "Iac"    -> AfterIac(n, byte)
      [] n.iac \in Verbs  -> Negotiate(n, byte)
      [] n.iac = "SbOpt"  -> [n EXCEPT !.iac = "Sb"]
      [] n.iac = "Sb"     -> InSb(n, byte)
      [] n.iac = "SbIac"  -> AfterSbIac(n, byte)

ProcessBytes(bytes, n) == FoldLeft(ProcessByte, n, bytes)
-----------------------------------------------------------------------------
(* What the protocol says of the same bytes: IAC begins a command and stands  *)
(* for itself only when doubled.  A stream is well formed if it is a sequence *)
(* of these parts, and each part is one of:                                   *)
Data == {<<b>> : b \in Plain} \cup {<<"IAC", "IAC">>}
Requests == {<<"IAC", v, o>> : v \in Verbs, o \in Bytes}
Commands == {<<"IAC", b>> : b \in Plain \ (Verbs \cup {"SB"})}
Payloads == {<<>>} \cup {<<b>> : b \in Plain} \cup {<<"IAC", "IAC">>}
Subnegotiations == {<<"IAC", "SB", o>> \o p \o <<"IAC", "SE">> : o \in {"GMCP", "IAC", "x"}, p \in Payloads}
Parts == Data \cup Requests \cup Commands \cup Subnegotiations

(* One part of each sort, for the longer streams. *)
Sample ==
    {<<"x">>, <<"CR">>, <<"LF">>, <<"IAC", "IAC">>, <<"IAC", "x">>, <<"IAC", "SB", "GMCP", "LF", "IAC", "SE">>}
        \cup {<<"IAC", v, o>> : v \in Verbs, o \in {"GMCP", "ECHO", "IAC"}}

IsData(p) == p \in Data
IsRequest(p) == p \in Requests

(* The lines: the data up to each line feed, without carriage returns.        *)
IsText(p) == IsData(p) /\ p # <<"CR">>
Text(parts) == LET texts == SelectSeq(parts, IsText) IN [i \in DOMAIN texts |-> Last(texts[i])]
AgreeOnLines(parts, n) ==
    /\ FlattenSeq([i \in DOMAIN n.lines |-> Append(n.lines[i], "LF")]) \o n.line = Text(parts)
    /\ \A l \in Range(n.lines) \cup {n.line} : "LF" \notin Range(l)

(* The client has GMCP if its last word on it was yes, and each request that  *)
(* the server has not made itself has one answer, in order.                   *)
Words(parts) == SelectSeq(parts, IsRequest)
AgreeOnOptions(parts, n) ==
    LET words == Words(parts)
        ofGmcp == {i \in DOMAIN words : words[i][3] = "GMCP"}
        asked(w) == w[2] = "WILL" \/ (w[2] = "DO" /\ w[3] \notin Options)
        answered == SelectSeq(words, asked)
    IN  /\ n.gmcp <=> \E i \in ofGmcp : words[i][2] \in {"WILL", "DO"} /\ \A j \in ofGmcp : j <= i
        /\ Len(n.answers) = Len(answered)
        /\ \A i \in DOMAIN answered :
               n.answers[i] = <<CASE answered[i][2] = "DO" -> "WONT"
                                  [] answered[i][3] = "GMCP" -> "DO"
                                  [] OTHER -> "DONT", answered[i][3]>>

(* Whatever well formed parts arrive, process_bytes ends between two of them  *)
(* and has taken them for what they are.                                      *)
AgreeOnStream(parts) ==
    LET n == ProcessBytes(FlattenSeq(parts), Fresh) IN
    n.iac = "Normal" /\ AgreeOnLines(parts, n) /\ AgreeOnOptions(parts, n)
=============================================================================
