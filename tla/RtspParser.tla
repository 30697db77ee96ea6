---------------------------- MODULE RtspParser -----------------------------
(***************************************************************************)
(* class RtspParser (src/protocol/rtsp_parser.cc) as operators: what       *)
(* becomes of a block of bytes that ends in an empty line, and what a      *)
(* Transport header asks for.  Bytes are their character codes.            *)
(***************************************************************************)
EXTENDS Integers, Sequences, FiniteSetsExt

CR == 13
LF == 10
Blank == {9, LF, 11, 12, CR, 32}

\* The first line: memchr for LF, less a CR before it; none without an LF.
FirstLine(data) ==
  LET newlines == {i \in DOMAIN data : data[i] = LF}
      line_len == Min(newlines) - 1
  IN IF newlines = {} THEN <<>>
     ELSE IF line_len > 0 /\ data[line_len] = CR THEN SubSeq(data, 1, line_len - 1)
     ELSE SubSeq(data, 1, line_len)

\* What operator>> of a stringstream takes first from a line.
FirstWord(line) ==
  LET solid == {i \in DOMAIN line : line[i] \notin Blank}
      from == Min(solid)
      upto == Min({i \in from..Len(line) : line[i] \in Blank} \cup {Len(line) + 1})
  IN IF solid = {} THEN <<>> ELSE SubSeq(line, from, upto - 1)

\* Parse, as far as it decides whether the request is answered and how: the
\* session answers a method it knows, refuses another, and says nothing to what
\* does not parse.  An empty first line starts the body, so that no request line
\* is found.  methods: the words ParseMethod knows.
Parse(data, methods, kMaxRtspRequestDataLen) ==
  LET method_str == FirstWord(FirstLine(data))
  IN IF Len(data) > kMaxRtspRequestDataLen \/ method_str = <<>> THEN "Unparsable"
     ELSE IF method_str \in methods THEN "known" ELSE "UNKNOWN"

-----------------------------------------------------------------------------
\* A Transport header is a list of alternatives, each with the names that
\* occur in it and the numbers of its client_port and interleaved fields: none,
\* one, or two.

Contains(header, name) == \E k \in DOMAIN header : name \in header[k].names

\* find: the field's first occurrence in the text.
Field(header, f) ==
  LET at == {k \in DOMAIN header : header[k][f] # <<>>}
  IN IF at = {} THEN <<>> ELSE header[Min(at)][f]

\* static_cast<int> of strtol's long, and int arithmetic as the build does it:
\* an int has int_size values, half of them negative.
ToInt(n, int_size) ==
  LET half == int_size \div 2 IN ((n + half) % int_size) - half

\* "a-b", or "a" alone, which stands for "a-(a+1)"; 0 without the field.
Pair(numbers, int_size) ==
  LET int(n) == ToInt(n, int_size)
  IN CASE Len(numbers) = 0 -> <<0, 0>>
       [] Len(numbers) = 1 -> <<int(numbers[1]), int(int(numbers[1]) + 1)>>
       [] OTHER            -> <<int(numbers[1]), int(numbers[2])>>

\* TransportInfo's constructor: a SETUP without the header.
NoTransport ==
  [is_tcp |-> FALSE, is_udp |-> FALSE, client_port |-> <<0, 0>>,
   interleaved |-> <<0, 0>>]

\* Mutant: RTP/AVP, which is part of RTP/AVP/TCP too, is looked for first.
ParseTransportAvpFirst(header, int_size) ==
  LET avp == Contains(header, "RTP/AVP")
  IN [is_tcp |-> ~avp /\ Contains(header, "TCP"),
      is_udp |-> avp \/ ~Contains(header, "TCP"),
      client_port |-> Pair(Field(header, "client_port"), int_size),
      interleaved |-> Pair(Field(header, "interleaved"), int_size)]

\* Whatever does not name TCP is UDP.
ParseTransport(header, int_size) ==
  [is_tcp |-> Contains(header, "TCP"),
   is_udp |-> ~Contains(header, "TCP"),
   client_port |-> Pair(Field(header, "client_port"), int_size),
   interleaved |-> Pair(Field(header, "interleaved"), int_size)]

\* The branch HandleSetup takes.
SetupKind(info) ==
  CASE info.is_udp /\ info.client_port[1] = 0       -> "SETUP_NOPORT"
    [] info.is_udp /\ info.client_port[1] # 0       -> "SETUP_UDP"
    [] ~info.is_udp /\ (info.is_tcp \/ info.interleaved[1] # 0) -> "SETUP_TCP"
    [] OTHER                                        -> "SETUP_OTHER"

=============================================================================
