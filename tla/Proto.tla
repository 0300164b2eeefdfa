------------------------------- MODULE Proto --------------------------------
(***************************************************************************)
(* net/proto.c: the parser of requests, and the elements replies are made  *)
(* of.  A byte that means something to the parser is a unit, and so is     *)
(* every word of a request: "GET" counts as one byte.                      *)
(***************************************************************************)
EXTENDS Integers, SequencesExt

CONSTANTS
    VC_MAX_ARGS,        \* longest argument vector
    VC_MAX_INLINE_ARG   \* longest bulk string

ASSUME ProtoAssumption == VC_MAX_ARGS \in Nat /\ VC_MAX_INLINE_ARG \in Nat

CR == "\r"
LF == "\n"
CRLF == <<CR, LF>>
Blanks == {" ", "\t"}
Digits == <<"0", "1", "2", "3", "4", "5", "6", "7", "8", "9">>
VC_WIRE_MAGIC == <<"*", "V", "C", "1">>

-----------------------------------------------------------------------------
Result(r, argv, n) == [r |-> r, argv |-> argv, consumed |-> n]
MORE == Result("MORE", <<>>, 0)
ERR  == Result("ERR", <<>>, 0)

\* The positions at which p ends a line, by \r\n.
find_crlf(buf) == {i \in 1 .. Len(buf) - 1 : buf[i] = CR /\ buf[i + 1] = LF}
First(positions) == CHOOSE i \in positions : \A j \in positions : i <= j

\* The number on a line, -1 if it is none; both callers refuse negative ones.
parse_int64(line) ==
    IF line = <<>> \/ ~(ToSet(line) \subseteq ToSet(Digits)) THEN -1
    ELSE FoldLeft(LAMBDA n, d : 10 * n + (CHOOSE i \in DOMAIN Digits : Digits[i] = d) - 1, 0, line)

\* The words of an inline command; those past VC_MAX_ARGS are dropped.
Words(line) ==
    LET add(a, u) ==
            IF u \in Blanks THEN [a EXCEPT !.inside = FALSE]
            ELSE IF a.inside THEN [a EXCEPT !.words[Len(a.words)] = Append(@, u)]
            ELSE [inside |-> TRUE, words |-> Append(a.words, <<u>>)]
        all == FoldLeft(add, [inside |-> FALSE, words |-> <<>>], line).words IN
    SubSeq(all, 1, Min({Len(all), VC_MAX_ARGS}))

\* A line ends with \r\n or with \n alone.
parse_inline(buf) ==
    LET ends == {i \in DOMAIN buf : buf[i] = LF}
        nl   == First(ends)
        line == SubSeq(buf, 1, IF nl > 1 /\ buf[nl - 1] = CR THEN nl - 2 ELSE nl - 1) IN
    IF ends = {} THEN MORE
    ELSE IF Words(line) = <<>> THEN ERR ELSE Result("OK", Words(line), nl)

\* "*VC1" and a type byte are stripped from an argument that begins with them.
Payload(arg) ==
    IF Len(arg) > Len(VC_WIRE_MAGIC) /\ IsPrefix(VC_WIRE_MAGIC, arg)
    THEN SubSeq(arg, Len(VC_WIRE_MAGIC) + 2, Len(arg)) ELSE arg

\* Fault: one byte too few will do.
NEED_less(rest, n) == Len(rest) + 1 >= n
NEED(rest, n) == Len(rest) >= n

\* One element $N\r\n<data>\r\n of an array, the parser being at a.consumed.
parse_element(buf, a) ==
    LET rest == SubSeq(buf, a.consumed + 1, Len(buf))
        cl   == First(find_crlf(rest))
        blen == parse_int64(SubSeq(rest, 2, cl - 1)) IN
    IF a.r # "OK" THEN a
    ELSE IF ~NEED(rest, 3) THEN MORE
    ELSE IF rest[1] # "$" THEN ERR
    ELSE IF find_crlf(rest) = {} THEN MORE
    ELSE IF blen \notin 0 .. VC_MAX_INLINE_ARG THEN ERR
    ELSE IF ~NEED(rest, cl + 1 + blen + 2) THEN MORE
    ELSE Result("OK", Append(a.argv, Payload(SubSeq(rest, cl + 2, cl + 1 + blen))),
                a.consumed + cl + 1 + blen + 2)

\* The array *N\r\n of N bulk strings.
parse_array(buf) ==
    LET cl   == First(find_crlf(buf))
        argc == parse_int64(SubSeq(buf, 2, cl - 1)) IN
    IF ~NEED(buf, 4) \/ find_crlf(buf) = {} THEN MORE
    ELSE IF argc \notin 0 .. VC_MAX_ARGS THEN ERR
    ELSE FoldLeft(LAMBDA a, i : parse_element(buf, a), Result("OK", <<>>, cl + 1), [i \in 1 .. argc |-> i])

resp_parse_command(buf) ==
    IF buf = <<>> THEN MORE ELSE IF buf[1] = "*" THEN parse_array(buf) ELSE parse_inline(buf)

-----------------------------------------------------------------------------
(* Replies.  An element has a type and, if it is a header, the number of   *)
(* elements that belong to it.                                             *)

Element(type, n) == [type |-> type, n |-> n]
resp_write_simple  == <<Element("+", 0)>>
resp_write_error   == <<Element("-", 0)>>
resp_write_integer == <<Element(":", 0)>>
resp_write_double  == <<Element(",", 0)>>
resp_write_bool    == <<Element("#", 0)>>
resp_write_bulk    == <<Element("$", 0)>>
resp_write_array_header(n) == <<Element("*", n)>>
resp_write_map_header(n)   == <<Element("%", 2 * n)>>
resp_write_null_compat(resp3) == <<Element(IF resp3 THEN "_" ELSE "$-1", 0)>>

Bulks(n) == FlattenSeq([k \in 1 .. n |-> resp_write_bulk])

\* Five pairs, the third one the version.
resp_write_hello(resp3) ==
    (IF resp3 THEN resp_write_map_header(5) ELSE resp_write_array_header(10))
        \o Bulks(5) \o resp_write_integer \o Bulks(4)

\* The elements a client of either version can read.
Readable(resp3) ==
    {"+", "-", ":", "$", "*"} \cup IF resp3 THEN {"_", "%", ",", "#"} ELSE {"$-1"}
=============================================================================
