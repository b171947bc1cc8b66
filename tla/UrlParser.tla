------------------------------ MODULE UrlParser ------------------------------
(***************************************************************************)
(* http_parser_parse_url (utils/http_parser.cpp): the character machine    *)
(* parse_url_char finds the fields of a URL; http_parse_host then reads    *)
(* the host field again and splits it into user information, host and      *)
(* port; last come the checks on the fields that were found.  A step is    *)
(* one character of either loop, or what follows the last one.             *)
(*                                                                         *)
(* The characters are those of UrlChar.  A URL is shorter than 2^16        *)
(* characters, so that offsets and lengths fit in their uint16_t.          *)
(***************************************************************************)
EXTENDS UrlChar, Naturals, SequencesExt

CONSTANTS
  Chars,     \* the characters of the URLs
  MaxLen,    \* bound: the length of the URLs
  MaxField,  \* bounds: the length of each field the first loop finds
  MaxPort    \* 0xffff

ASSUME UrlAssumption ==
  /\ Chars \subseteq {"a", "1", "%", ":", "/", "?", "#", "@", "[", "]"}
  /\ MaxLen \in 0 .. 65535 /\ MaxPort \in Nat
  /\ MaxField \in [{"UF_SCHEMA", "UF_HOST", "UF_PATH", "UF_QUERY", "UF_FRAGMENT"} -> Nat]

VARIABLES
  is_connect,  \* the argument of that name
  url,         \* the characters read
  s,           \* the state of parse_url_char
  field,       \* u->field_data of the fields in u->field_set
  current,     \* old_uf: the field the last character belongs to
  found_at,    \* was there an "@" in the host?
  host,        \* the locals s, p and buflen of http_parse_host, as offsets
  port,        \* u->port
  result       \* "reading", "splitting" the host, then "accepted" (0) or "rejected" (1)

vars == <<is_connect, url, s, field, current, found_at, host, port, result>>

Init ==
  /\ is_connect \in BOOLEAN
  /\ url = <<>>
  /\ s = IF is_connect THEN "s_req_server_start" ELSE "s_req_spaces_before_url"
  /\ field = [f \in {} |-> 0]
  /\ current = "UF_MAX" /\ found_at = FALSE /\ port = 0
  /\ host = [st |-> "s_http_host_start", p |-> 0, end |-> 0]
  /\ result = "reading"

-----------------------------------------------------------------------------
(* The fields of a URL *)

\* The field a state belongs to; the states of delimiters have none.
FieldOf ==
  [st \in {"s_req_schema", "s_req_server_with_at", "s_req_server", "s_req_path",
           "s_req_query_string", "s_req_fragment"} |->
     CASE st = "s_req_schema" -> "UF_SCHEMA"
       [] st \in {"s_req_server_with_at", "s_req_server"} -> "UF_HOST"
       [] st = "s_req_path" -> "UF_PATH"
       [] st = "s_req_query_string" -> "UF_QUERY"
       [] st = "s_req_fragment" -> "UF_FRAGMENT"]

\* The fields with f set to a span of len characters after the first off ones.
WithField(fields, f, off, len) ==
  [g \in DOMAIN fields \cup {f} |-> IF g = f THEN [off |-> off, len |-> len] ELSE fields[g]]

\* Read the next character ch.
Char(ch) ==
  /\ result = "reading" /\ Len(url) < MaxLen
  /\ url' = Append(url, ch)
  /\ LET st == parse_url_char(s, ch)
     IN /\ s' = st
        /\ result' = IF st = "s_dead" THEN "rejected" ELSE "reading"
        /\ found_at' = (found_at \/ st = "s_req_server_with_at")
        /\ IF st \notin DOMAIN FieldOf THEN UNCHANGED <<field, current>>
           ELSE LET uf == FieldOf[st]
                IN /\ uf = current => field[uf].len < MaxField[uf]
                   /\ current' = uf
                   /\ field' = IF uf = current THEN [field EXCEPT ![uf].len = @ + 1]
                               ELSE WithField(field, uf, Len(url), 1)
  /\ UNCHANGED <<is_connect, host, port>>

-----------------------------------------------------------------------------
(* The host field *)

IS_HOST_CHAR(ch) == ch \in {"a", "1"}

http_parse_host_char(st, ch) ==
  CASE st \in {"s_http_userinfo", "s_http_userinfo_start"} /\ ch = "@" -> "s_http_host_start"
    [] st \in {"s_http_userinfo", "s_http_userinfo_start"} /\ IS_USERINFO_CHAR(ch) -> "s_http_userinfo"
    [] st = "s_http_host_start" /\ ch = "[" -> "s_http_host_v6_start"
    [] st \in {"s_http_host_start", "s_http_host"} /\ IS_HOST_CHAR(ch) -> "s_http_host"
    [] st \in {"s_http_host", "s_http_host_v6_end"} /\ ch = ":" -> "s_http_host_port_start"
    [] st \in {"s_http_host_v6", "s_http_host_v6_zone"} /\ ch = "]" -> "s_http_host_v6_end"
    [] st \in {"s_http_host_v6", "s_http_host_v6_start"} /\ ch \in {"a", "1", ":"} -> "s_http_host_v6"
    [] st = "s_http_host_v6" /\ ch = "%" -> "s_http_host_v6_zone_start"
    [] st \in {"s_http_host_v6_zone", "s_http_host_v6_zone_start"} /\ ch \in {"a", "1", "%"} ->
         "s_http_host_v6_zone"
    [] st \in {"s_http_host_port", "s_http_host_port_start"} /\ ch = "1" -> "s_http_host_port"
    [] OTHER -> "s_http_host_dead"

\* The field a character in state st is added to.  Zone characters follow the host's.
HostFieldOf ==
  [st \in {"s_http_host", "s_http_host_v6", "s_http_host_v6_zone_start", "s_http_host_v6_zone",
           "s_http_host_port", "s_http_userinfo"} |->
     CASE st = "s_http_host_port" -> "UF_PORT"
       [] st = "s_http_userinfo" -> "UF_USERINFO"
       [] OTHER -> "UF_HOST"]

Zone == {"s_http_host_v6_zone_start", "s_http_host_v6_zone"}

\* Mutation: the length of the host is not set to 0 before it is counted again.
StartHostKeeping(fields) ==
  /\ host' = [st |-> IF found_at THEN "s_http_userinfo_start" ELSE "s_http_host_start",
              p |-> fields["UF_HOST"].off,
              end |-> fields["UF_HOST"].off + fields["UF_HOST"].len]
  /\ field' = fields

\* The start of http_parse_host: buflen is where the field the first loop found ends.
StartHost(fields) ==
  /\ host' = [st |-> IF found_at THEN "s_http_userinfo_start" ELSE "s_http_host_start",
              p |-> fields["UF_HOST"].off,
              end |-> fields["UF_HOST"].off + fields["UF_HOST"].len]
  /\ field' = [fields EXCEPT !["UF_HOST"].len = 0]

\* The field f with the character at host.p: its first one, or one more.  The host
\* starts anew, but its length is not set again.
Added(f, first) ==
  IF ~first THEN [field EXCEPT ![f].len = @ + 1]
  ELSE WithField(field, f, host.p, IF f = "UF_HOST" THEN field[f].len + 1 ELSE 1)

\* One character of the loop of http_parse_host.
HostChar ==
  /\ result = "splitting" /\ host.p < host.end
  /\ LET st == http_parse_host_char(host.st, url[host.p + 1])
     IN IF st = "s_http_host_dead" THEN result' = "rejected" /\ UNCHANGED <<field, host>>
        ELSE /\ host' = [host EXCEPT !.st = st, !.p = @ + 1]
             /\ field' = IF st \notin DOMAIN HostFieldOf THEN field
                         ELSE Added(HostFieldOf[st], st # host.st /\ st \notin Zone)
             /\ UNCHANGED result
  /\ UNCHANGED <<is_connect, url, s, current, found_at, port>>

\* "Make sure we don't end somewhere unexpected"
HostEnds == {"s_http_host", "s_http_host_v6_end", "s_http_host_port"}

-----------------------------------------------------------------------------
(* The end of the buffer *)

\* The decimal number that a text of digits spells.
Decimal(text) ==
  LET shift(v, ch) == v * 10 + 1
  IN FoldLeft(shift, 0, text)

\* Where the digits that start at off end.  The byte after the buffer is not a digit.
DigitsEnd(off) ==
  CHOOSE e \in off .. Len(url) :
    /\ \A i \in off + 1 .. e : url[i] = "1"
    /\ e = Len(url) \/ url[e + 1] # "1"

\* Digits that follow one another at off, read as a decimal number.
strtoul(off) == Decimal(SubSeq(url, off + 1, DigitsEnd(off)))

\* Mutation: the test looks at the value cast to 16 bits.
PortFitsLate(v) == v % (MaxPort + 1) <= MaxPort

\* "Ports have a max value of 2^16"
PortFits(v) == v <= MaxPort

\* The checks on the fields.
Verdict ==
  LET v == strtoul(field["UF_PORT"].off)
      ported == "UF_PORT" \in DOMAIN field
  IN IF \/ is_connect /\ DOMAIN field # {"UF_HOST", "UF_PORT"}
        \/ ported /\ ~PortFits(v)
     THEN result' = "rejected" /\ UNCHANGED port
     ELSE result' = "accepted" /\ port' = IF ported THEN v ELSE 0

\* What follows the loop of http_parser_parse_url.
EndOfUrl ==
  /\ result = "reading"
  /\ CASE "UF_HOST" \in DOMAIN field -> StartHost(field) /\ result' = "splitting" /\ UNCHANGED port
       [] "UF_HOST" \notin DOMAIN field /\ "UF_SCHEMA" \in DOMAIN field ->
            result' = "rejected" /\ UNCHANGED <<field, host, port>>
       [] OTHER -> Verdict /\ UNCHANGED <<field, host>>
  /\ UNCHANGED <<is_connect, url, s, current, found_at>>

\* What follows the loop of http_parse_host.
EndOfHost ==
  /\ result = "splitting" /\ host.p = host.end
  /\ IF host.st \in HostEnds THEN Verdict ELSE result' = "rejected" /\ UNCHANGED port
  /\ UNCHANGED <<is_connect, url, s, field, current, found_at, host>>

Next == (\E ch \in Chars : Char(ch)) \/ EndOfUrl \/ HostChar \/ EndOfHost

Spec == Init /\ [][Next]_vars

-----------------------------------------------------------------------------
(* Properties *)

\* The order of the fields in a URL.
Rank ==
  [f \in {"UF_SCHEMA", "UF_USERINFO", "UF_HOST", "UF_PORT", "UF_PATH", "UF_QUERY", "UF_FRAGMENT"} |->
     CASE f = "UF_SCHEMA" -> 1 [] f = "UF_USERINFO" -> 2 [] f = "UF_HOST" -> 3 [] f = "UF_PORT" -> 4
       [] f = "UF_PATH" -> 5 [] f = "UF_QUERY" -> 6 [] OTHER -> 7]

\* f and g were found, and no field that stands between them.
Neighbours(f, g) ==
  /\ Rank[f] < Rank[g]
  /\ \A h \in DOMAIN field : ~(Rank[f] < Rank[h] /\ Rank[h] < Rank[g])

\* An address in brackets, which are not in the field.
Bracketed(f) == f = "UF_HOST" /\ field[f].off > 0 /\ url[field[f].off] = "["

\* Where a field begins and ends, with its brackets.
Left(f) == IF Bracketed(f) THEN field[f].off - 1 ELSE field[f].off
End(f) == field[f].off + field[f].len
Right(f) == IF Bracketed(f) THEN End(f) + 1 ELSE End(f)

\* The characters after the first i, up to the j-th: a text, or hashes.
Reads(i, j, text) ==
  j = i + Len(text) /\ j <= Len(url) /\ \A k \in DOMAIN text : url[i + k] = text[k]
Hashes(i, j) == i < j /\ j <= Len(url) /\ \A k \in i + 1 .. j : url[k] = "#"

\* What may lie from i to j between a field f and its neighbour g.
Between(f, g, i, j) ==
  \/ g = "UF_USERINFO" /\ f = "UF_SCHEMA" /\ Reads(i, j, <<":", "/", "/">>)
  \/ /\ g = "UF_HOST" /\ f = "UF_SCHEMA"
     /\ Reads(i, j, <<":", "/", "/">>) \/ Reads(i, j, <<":", "/", "/", "@">>)
  \/ g = "UF_HOST" /\ f = "UF_USERINFO" /\ Reads(i, j, <<"@">>)
  \/ g = "UF_PORT" /\ f = "UF_HOST" /\ Reads(i, j, <<":">>)
  \/ g = "UF_PATH" /\ f \in {"UF_HOST", "UF_PORT"} /\ i = j
  \/ g = "UF_QUERY" /\ f \in {"UF_HOST", "UF_PORT", "UF_PATH"} /\ Reads(i, j, <<"?">>)
  \/ g = "UF_FRAGMENT" /\ f \in {"UF_HOST", "UF_PORT", "UF_PATH", "UF_QUERY"} /\ Hashes(i, j)
  \/ g = "UF_FRAGMENT" /\ f \in {"UF_HOST", "UF_PORT", "UF_PATH"} /\ Reads(i, i + 1, <<"?">>) /\ Hashes(i + 1, j)

\* What may stand before the first field, and after the last one.
Before(g) == Left(g) = 0 \/ (g = "UF_HOST" /\ Reads(0, Left(g), <<"@">>))
After(f, j) ==
  \/ Right(f) = j
  \/ f # "UF_FRAGMENT" /\ Hashes(Right(f), j)
  \/ /\ f \notin {"UF_FRAGMENT", "UF_QUERY"} /\ Reads(Right(f), Right(f) + 1, <<"?">>)
     /\ Right(f) + 1 = j \/ Hashes(Right(f) + 1, j)

\* The fields of an accepted URL follow one another in order, a host wherever there is
\* a schema, and only the delimiters proper to the two lie between neighbours: no
\* character is in two fields, none that matters is in none, though http_parse_host
\* moves the host's start and counts its length anew.
FieldsTile ==
  result = "accepted" /\ url # <<>> =>
    /\ DOMAIN field # {}
    /\ \A f \in DOMAIN field :
         /\ field[f].len > 0
         /\ Bracketed(f) => Reads(End(f), Right(f), <<"]">>)
         /\ (\A h \in DOMAIN field : Rank[f] <= Rank[h]) => Before(f)
         /\ (\A h \in DOMAIN field : Rank[h] <= Rank[f]) => After(f, Len(url))
         /\ \A g \in DOMAIN field : Neighbours(f, g) => Between(f, g, Right(f), Left(g))

\* The characters of a field.
Text(f) == SubSeq(url, field[f].off + 1, End(f))

\* The port of an accepted URL is the number that its port field spells, digits only,
\* and fits in 16 bits; with no such field it is 0.
PortIsField ==
  result = "accepted" =>
    IF "UF_PORT" \notin DOMAIN field THEN port = 0
    ELSE /\ Text("UF_PORT") # <<>> /\ \A i \in DOMAIN Text("UF_PORT") : Text("UF_PORT")[i] = "1"
         /\ port = Decimal(Text("UF_PORT")) /\ port <= MaxPort
===============================================================================
