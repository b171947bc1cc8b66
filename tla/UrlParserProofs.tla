---------------------------- MODULE UrlParserProofs ----------------------------
(***************************************************************************)
(* The fields of every URL that is accepted tile it, whatever its length,  *)
(* and its port is the number that is spelled.                             *)
(*                                                                         *)
(* The inductive invariant UrlInv says where the characters read so far    *)
(* have gone: Frame is what the first loop has found, Trailing what it has *)
(* read after that, and Split what http_parse_host has made of the host.   *)
(* They are operators of the fields fl, the characters u and the place e   *)
(* where the host field ends (buflen in http_parse_host), so that a step   *)
(* is a fact about the values before it and after it.                      *)
(***************************************************************************)
EXTENDS UrlParser, SequenceTheorems, TLAPS

Names == {"UF_SCHEMA", "UF_USERINFO", "UF_HOST", "UF_PORT", "UF_PATH", "UF_QUERY", "UF_FRAGMENT"}

\* u->field_data: a span for each field that was found.
Spans(fl) ==
  /\ DOMAIN fl \subseteq Names
  /\ \A f \in DOMAIN fl : fl[f] \in [off : Nat, len : Nat]
  /\ fl = [f \in DOMAIN fl |-> fl[f]]

\* Where the field f ends.
Stop(fl, f) == fl[f].off + fl[f].len

\* The character c, hashes, and hashes after a query that may have no characters, from i to j.
One(u, i, j, c) == j = i + 1 /\ j <= Len(u) /\ u[j] = c
Sharps(u, i, j) == i < j /\ j <= Len(u) /\ \A k \in i + 1 .. j : u[k] = "#"
Marks(u, i, j) == Sharps(u, i, j) \/ (One(u, i, i + 1, "?") /\ Sharps(u, i + 1, j))

-----------------------------------------------------------------------------
(* What the first loop finds *)

\* Where the host field starts, or what takes its place: after the schema, if there is one.
Begin(fl) == IF "UF_SCHEMA" \in DOMAIN fl THEN Stop(fl, "UF_SCHEMA") + 3 ELSE 0

\* Where the host ends if there is one, and where the path does.
AfterHost(fl, e) == IF "UF_HOST" \in DOMAIN fl THEN e ELSE Begin(fl)
AfterPath(fl, e) == IF "UF_PATH" \in DOMAIN fl THEN Stop(fl, "UF_PATH") ELSE AfterHost(fl, e)

SchemaStates == {"s_req_schema", "s_req_schema_slash", "s_req_schema_slash_slash"}
HostFields == {"s_req_server", "s_req_server_with_at"}

\* The fields that were found follow one another.
Frame(fl, u, st, e) ==
  /\ "UF_SCHEMA" \in DOMAIN fl =>
       /\ fl["UF_SCHEMA"].off = 0 /\ fl["UF_SCHEMA"].len > 0
       /\ st \notin SchemaStates =>
            /\ Begin(fl) <= Len(u)
            /\ u[Begin(fl) - 2] = ":" /\ u[Begin(fl) - 1] = "/" /\ u[Begin(fl)] = "/"
  /\ "UF_HOST" \in DOMAIN fl => Begin(fl) < e /\ e <= Len(u)
  /\ "UF_PATH" \in DOMAIN fl =>
       /\ fl["UF_PATH"].off = AfterHost(fl, e) /\ fl["UF_PATH"].len > 0 /\ Stop(fl, "UF_PATH") <= Len(u)
       /\ One(u, AfterHost(fl, e), AfterHost(fl, e) + 1, "/")
  /\ "UF_QUERY" \in DOMAIN fl =>
       /\ One(u, AfterPath(fl, e), fl["UF_QUERY"].off, "?")
       /\ fl["UF_QUERY"].len > 0 /\ Stop(fl, "UF_QUERY") <= Len(u)
  /\ "UF_FRAGMENT" \in DOMAIN fl =>
       /\ fl["UF_FRAGMENT"].len > 0
       /\ "UF_QUERY" \in DOMAIN fl => Sharps(u, Stop(fl, "UF_QUERY"), fl["UF_FRAGMENT"].off)
       /\ "UF_QUERY" \notin DOMAIN fl => Marks(u, AfterPath(fl, e), fl["UF_FRAGMENT"].off)

\* No fields after the host.
NoPath(fl) == "UF_PATH" \notin DOMAIN fl /\ "UF_QUERY" \notin DOMAIN fl /\ "UF_FRAGMENT" \notin DOMAIN fl

\* What was read after the last field that was found, in each of the states.
Trailing(fl, u, st, e) ==
  /\ st = "s_req_spaces_before_url" => Len(u) = 0 /\ DOMAIN fl = {}
  /\ st = "s_req_schema" => DOMAIN fl = {"UF_SCHEMA"} /\ Stop(fl, "UF_SCHEMA") = Len(u)
  /\ st = "s_req_schema_slash" =>
       DOMAIN fl = {"UF_SCHEMA"} /\ One(u, Stop(fl, "UF_SCHEMA"), Len(u), ":")
  /\ st = "s_req_schema_slash_slash" =>
       /\ DOMAIN fl = {"UF_SCHEMA"} /\ One(u, Stop(fl, "UF_SCHEMA") + 1, Len(u), "/")
       /\ One(u, Stop(fl, "UF_SCHEMA"), Stop(fl, "UF_SCHEMA") + 1, ":")
  /\ st = "s_req_server_start" => DOMAIN fl \subseteq {"UF_SCHEMA"} /\ Len(u) = Begin(fl)
  /\ st \in HostFields => "UF_HOST" \in DOMAIN fl /\ NoPath(fl) /\ e = Len(u)
  /\ st = "s_req_path" =>
       /\ "UF_PATH" \in DOMAIN fl /\ "UF_QUERY" \notin DOMAIN fl /\ "UF_FRAGMENT" \notin DOMAIN fl
       /\ Stop(fl, "UF_PATH") = Len(u)
  /\ st = "s_req_query_string_start" =>
       /\ "UF_QUERY" \notin DOMAIN fl /\ "UF_FRAGMENT" \notin DOMAIN fl
       /\ One(u, AfterPath(fl, e), Len(u), "?")
  /\ st = "s_req_query_string" =>
       "UF_QUERY" \in DOMAIN fl /\ "UF_FRAGMENT" \notin DOMAIN fl /\ Stop(fl, "UF_QUERY") = Len(u)
  /\ st = "s_req_fragment_start" =>
       /\ "UF_FRAGMENT" \notin DOMAIN fl
       /\ "UF_QUERY" \in DOMAIN fl => Sharps(u, Stop(fl, "UF_QUERY"), Len(u))
       /\ "UF_QUERY" \notin DOMAIN fl => Marks(u, AfterPath(fl, e), Len(u))
  /\ st = "s_req_fragment" => "UF_FRAGMENT" \in DOMAIN fl /\ Stop(fl, "UF_FRAGMENT") = Len(u)

UrlStates ==
  {"s_req_spaces_before_url", "s_req_schema", "s_req_schema_slash", "s_req_schema_slash_slash",
   "s_req_server_start", "s_req_server", "s_req_server_with_at", "s_req_path",
   "s_req_query_string_start", "s_req_query_string", "s_req_fragment_start", "s_req_fragment"}

\* Where the host field ends in the first loop; then buflen has it.
HostStop(fl) == IF "UF_HOST" \in DOMAIN fl THEN Stop(fl, "UF_HOST") ELSE 0
HostEnd == IF result = "reading" \/ "UF_HOST" \notin DOMAIN field THEN HostStop(field) ELSE host.end

\* While the first loop runs: the field it is in, and where the host field starts and ends.
Reading(fl, st, uf) ==
  /\ st = "s_req_schema" => uf = "UF_SCHEMA"
  /\ st \in HostFields => uf = "UF_HOST"
  /\ st = "s_req_path" => uf = "UF_PATH"
  /\ st = "s_req_query_string" => uf = "UF_QUERY"
  /\ st = "s_req_fragment" => uf = "UF_FRAGMENT"
  /\ uf \in DOMAIN fl \cup {"UF_MAX"}
  /\ "UF_USERINFO" \notin DOMAIN fl /\ "UF_PORT" \notin DOMAIN fl
  /\ "UF_HOST" \in DOMAIN fl => fl["UF_HOST"].off = Begin(fl)

-----------------------------------------------------------------------------
(* What http_parse_host finds *)

\* The host, or its bracket, may start after the first q characters.
OpensAt(fl, u, q) ==
  IF "UF_USERINFO" \in DOMAIN fl
  THEN /\ fl["UF_USERINFO"].off = Begin(fl) /\ fl["UF_USERINFO"].len > 0
       /\ One(u, Stop(fl, "UF_USERINFO"), q, "@")
  ELSE q = Begin(fl) \/ One(u, Begin(fl), q, "@")

\* A name, and an address in brackets, that were read up to q.
NameTo(fl, u, q) ==
  fl["UF_HOST"].len > 0 /\ OpensAt(fl, u, fl["UF_HOST"].off) /\ Stop(fl, "UF_HOST") = q
AddressTo(fl, u, q) ==
  /\ fl["UF_HOST"].len > 0 /\ fl["UF_HOST"].off > 0 /\ Stop(fl, "UF_HOST") = q
  /\ OpensAt(fl, u, fl["UF_HOST"].off - 1)
  /\ One(u, fl["UF_HOST"].off - 1, fl["UF_HOST"].off, "[")

\* A host that ends at q, with its bracket.
HostTo(fl, u, q) ==
  NameTo(fl, u, q) \/ (AddressTo(fl, u, Stop(fl, "UF_HOST")) /\ One(u, Stop(fl, "UF_HOST"), q, "]"))

\* A port that ends at q, after a colon.
PortTo(fl, u, q) ==
  /\ fl["UF_PORT"].len > 0 /\ Stop(fl, "UF_PORT") = q
  /\ fl["UF_PORT"].off > 0 /\ HostTo(fl, u, fl["UF_PORT"].off - 1)
  /\ One(u, fl["UF_PORT"].off - 1, fl["UF_PORT"].off, ":")
  /\ \A i \in fl["UF_PORT"].off + 1 .. q : u[i] = "1"

AddressStates == {"s_http_host_v6", "s_http_host_v6_zone_start", "s_http_host_v6_zone"}
OpeningStates == {"s_http_userinfo_start", "s_http_userinfo", "s_http_host_start", "s_http_host_v6_start"}

\* What http_parse_host has read up to p, in each of its states.
Split(fl, u, st, p) ==
  /\ st = "s_http_userinfo_start" => p = Begin(fl) /\ "UF_USERINFO" \notin DOMAIN fl
  /\ st = "s_http_userinfo" => /\ "UF_USERINFO" \in DOMAIN fl /\ fl["UF_USERINFO"].off = Begin(fl)
                               /\ fl["UF_USERINFO"].len > 0 /\ Stop(fl, "UF_USERINFO") = p
  /\ st = "s_http_host_start" => OpensAt(fl, u, p)
  /\ st = "s_http_host" => NameTo(fl, u, p)
  /\ st = "s_http_host_v6_start" => p > 0 /\ OpensAt(fl, u, p - 1) /\ One(u, p - 1, p, "[")
  /\ st \in AddressStates => AddressTo(fl, u, p)
  /\ st = "s_http_host_v6_end" =>
       AddressTo(fl, u, Stop(fl, "UF_HOST")) /\ One(u, Stop(fl, "UF_HOST"), p, "]")
  /\ st = "s_http_host_port_start" => p > 0 /\ HostTo(fl, u, p - 1) /\ One(u, p - 1, p, ":")
  /\ st = "s_http_host_port" => "UF_PORT" \in DOMAIN fl /\ PortTo(fl, u, p)
  /\ st \in OpeningStates => fl["UF_HOST"].len = 0
  /\ st # "s_http_host_port" => "UF_PORT" \notin DOMAIN fl

HostStates == OpeningStates \cup AddressStates \cup
  {"s_http_host", "s_http_host_v6_end", "s_http_host_port_start", "s_http_host_port"}

\* While http_parse_host runs over the host field.
Splitting(fl, u, h) ==
  /\ "UF_HOST" \in DOMAIN fl
  /\ h \in [st : HostStates, p : Nat, end : Nat]
  /\ Begin(fl) <= h.p /\ h.p <= h.end
  /\ Split(fl, u, h.st, h.p)

\* What was found of a URL that is accepted.
Accepted(fl, u, e) ==
  /\ "UF_HOST" \in DOMAIN fl /\ "UF_PORT" \in DOMAIN fl => PortTo(fl, u, e)
  /\ "UF_HOST" \in DOMAIN fl /\ "UF_PORT" \notin DOMAIN fl => HostTo(fl, u, e)
  /\ "UF_HOST" \notin DOMAIN fl =>
       /\ "UF_USERINFO" \notin DOMAIN fl /\ "UF_PORT" \notin DOMAIN fl /\ "UF_SCHEMA" \notin DOMAIN fl
       /\ Len(u) > 0 => "UF_PATH" \in DOMAIN fl

\* The number that the port field spells.
Spelled(fl, u) == Decimal(SubSeq(u, fl["UF_PORT"].off + 1, Stop(fl, "UF_PORT")))

UrlInv ==
  /\ Spans(field) /\ url \in Seq(Chars)
  /\ result \in {"reading", "splitting", "accepted", "rejected"}
  /\ result # "rejected" =>
       s \in UrlStates /\ HostEnd \in Nat /\ Frame(field, url, s, HostEnd) /\ Trailing(field, url, s, HostEnd)
  /\ result = "reading" =>
       /\ Reading(field, s, current)
       /\ is_connect \/ s = "s_req_spaces_before_url" \/ {"UF_SCHEMA", "UF_PATH"} \cap DOMAIN field # {}
  /\ result = "splitting" => Splitting(field, url, host)
  /\ result = "accepted" =>
       /\ Accepted(field, url, HostEnd)
       /\ "UF_PORT" \notin DOMAIN field => port = 0
       /\ "UF_PORT" \in DOMAIN field => port = Spelled(field, url) /\ port <= MaxPort

-----------------------------------------------------------------------------
(* The steps of the first loop *)

\* v is u with ch after it.
Extends(u, v, ch) ==
  /\ Len(u) \in Nat /\ Len(v) = Len(u) + 1 /\ v[Len(v)] = ch
  /\ \A i \in 1 .. Len(u) : v[i] = u[i]

\* The spans gl are fl with one more character in f, and with a span of one after off for f.
Grown(fl, gl, f) ==
  /\ f \in DOMAIN fl /\ DOMAIN gl = DOMAIN fl
  /\ gl[f].off = fl[f].off /\ gl[f].len = fl[f].len + 1
  /\ \A g \in DOMAIN fl \ {f} : gl[g] = fl[g]
Opened(fl, gl, f, off) ==
  /\ DOMAIN gl = DOMAIN fl \cup {f}
  /\ gl[f].off = off /\ gl[f].len = 1
  /\ \A g \in DOMAIN fl \ {f} : gl[g] = fl[g]

\* A character that is appended is the last one.
LEMMA AppendExtends ==
  ASSUME NEW u \in Seq(Chars), NEW ch \in Chars
  PROVE  Append(u, ch) \in Seq(Chars) /\ Extends(u, Append(u, ch), ch)
BY DEF Extends

\* The characters that were read stay as they are.
LEMMA MarksStay ==
  ASSUME NEW u, NEW v, NEW ch, Extends(u, v, ch), NEW i \in Nat, NEW j \in Nat
  PROVE  /\ \A c : One(u, i, j, c) => One(v, i, j, c)
         /\ Sharps(u, i, j) => Sharps(v, i, j)
         /\ Marks(u, i, j) => Marks(v, i, j)
<1>1. \A c : \A k \in Nat, l \in Nat : One(u, k, l, c) => One(v, k, l, c)
  BY DEF One, Extends
<1>2. \A k \in Nat, l \in Nat : Sharps(u, k, l) => Sharps(v, k, l)
  BY DEF Sharps, Extends
<1>3. QED
  BY <1>1, <1>2 DEF Marks

\* The characters of an "#" that follows.
LEMMA MarksGrow ==
  ASSUME NEW u, NEW v, Extends(u, v, "#"), NEW i \in Nat
  PROVE  /\ Sharps(u, i, Len(u)) => Sharps(v, i, Len(v))
         /\ Marks(u, i, Len(u)) => Marks(v, i, Len(v))
         /\ i = Len(u) => Sharps(v, i, Len(v)) /\ Marks(v, i, Len(v))
         /\ One(u, i, Len(u), "?") => Marks(v, i, Len(v))
<1>1. \A k \in Nat : Sharps(u, k, Len(u)) => Sharps(v, k, Len(v))
  BY DEF Sharps, Extends
<1>2. \A k \in Nat : k = Len(u) => Sharps(v, k, Len(v))
  BY DEF Sharps, Extends
<1>3. \A k \in Nat, l \in Nat : One(u, k, l, "?") => One(v, k, l, "?")
  BY DEF One, Extends
<1>4. Len(u) \in Nat
  BY DEF Extends
<1>5. Marks(u, i, Len(u)) => Marks(v, i, Len(v))
  BY <1>1, <1>3 DEF Marks
<1>6. One(u, i, Len(u), "?") => Marks(v, i, Len(v))
  <2>1. SUFFICES ASSUME One(u, i, Len(u), "?") PROVE Marks(v, i, Len(v))
    OBVIOUS
  <2>2. Len(u) = i + 1
    BY <2>1 DEF One
  <2>3. QED
    BY <2>1, <2>2, <1>2, <1>3, <1>4 DEF Marks
<1>7. i = Len(u) => Marks(v, i, Len(v))
  BY <1>2 DEF Marks
<1>8. QED
  BY <1>1, <1>2, <1>5, <1>6, <1>7

\* What a span is made of.
LEMMA SpansAre ==
  ASSUME NEW fl, Spans(fl), NEW f \in DOMAIN fl
  PROVE  /\ f \in Names /\ fl[f].off \in Nat /\ fl[f].len \in Nat
         /\ fl[f] = [off |-> fl[f].off, len |-> fl[f].len] /\ Stop(fl, f) \in Nat
BY DEF Spans, Stop

\* What it means for a span to have grown.
LEMMA GrownStops ==
  ASSUME NEW fl, NEW gl, NEW f, Spans(fl), Grown(fl, gl, f)
  PROVE  /\ f \in DOMAIN fl /\ DOMAIN gl = DOMAIN fl
         /\ gl[f].off = fl[f].off /\ gl[f].len = fl[f].len + 1 /\ Stop(gl, f) = Stop(fl, f) + 1
         /\ \A g \in DOMAIN fl \ {f} : gl[g] = fl[g] /\ Stop(gl, g) = Stop(fl, g)
<1>1. f \in DOMAIN fl /\ fl[f].off \in Nat /\ fl[f].len \in Nat
  BY SpansAre DEF Grown
<1>2. QED
  BY <1>1 DEF Grown, Stop

\* The frame stays as it is while characters are read that are in no field.
LEMMA FrameStays ==
  ASSUME NEW fl, NEW u, NEW v, NEW ch, NEW st, NEW e \in Nat,
         Spans(fl), Extends(u, v, ch), Frame(fl, u, st, e)
  PROVE  /\ Begin(fl) \in Nat /\ AfterHost(fl, e) \in Nat /\ AfterPath(fl, e) \in Nat
         /\ st \notin SchemaStates => \A st2 : Frame(fl, v, st2, e)
         /\ \A st2 \in SchemaStates : Frame(fl, v, st2, e)
<1>1. \A f \in DOMAIN fl : fl[f].off \in Nat /\ fl[f].len \in Nat /\ Stop(fl, f) \in Nat
  BY SpansAre
<1>2. Begin(fl) \in Nat /\ AfterHost(fl, e) \in Nat /\ AfterPath(fl, e) \in Nat
  BY <1>1 DEF Begin, AfterHost, AfterPath
<1>3. Len(u) \in Nat /\ Len(v) = Len(u) + 1 /\ \A i \in 1 .. Len(u) : v[i] = u[i]
  BY DEF Extends
<1>4. ASSUME "UF_SCHEMA" \in DOMAIN fl, st \notin SchemaStates
      PROVE  /\ Begin(fl) <= Len(v)
             /\ v[Begin(fl) - 2] = ":" /\ v[Begin(fl) - 1] = "/" /\ v[Begin(fl)] = "/"
  <2>1. /\ Begin(fl) <= Len(u) /\ u[Begin(fl) - 2] = ":"
        /\ u[Begin(fl) - 1] = "/" /\ u[Begin(fl)] = "/"
    BY <1>4 DEF Frame
  <2>2. Begin(fl) - 2 \in 1 .. Len(u) /\ Begin(fl) - 1 \in 1 .. Len(u) /\ Begin(fl) \in 1 .. Len(u)
    BY <1>1, <1>3, <1>4, <2>1 DEF Begin
  <2>3. QED
    BY <1>2, <1>3, <2>1, <2>2
<1>5. "UF_HOST" \in DOMAIN fl => Begin(fl) < e /\ e <= Len(v)
  BY <1>2, <1>3 DEF Frame
<1>6. "UF_PATH" \in DOMAIN fl =>
       /\ fl["UF_PATH"].off = AfterHost(fl, e) /\ fl["UF_PATH"].len > 0 /\ Stop(fl, "UF_PATH") <= Len(v)
       /\ One(v, AfterHost(fl, e), AfterHost(fl, e) + 1, "/")
  BY <1>1, <1>2, <1>3, MarksStay DEF Frame
<1>7. "UF_QUERY" \in DOMAIN fl =>
       /\ One(v, AfterPath(fl, e), fl["UF_QUERY"].off, "?")
       /\ fl["UF_QUERY"].len > 0 /\ Stop(fl, "UF_QUERY") <= Len(v)
  BY <1>1, <1>2, <1>3, MarksStay DEF Frame
<1>8. "UF_FRAGMENT" \in DOMAIN fl =>
       /\ fl["UF_FRAGMENT"].len > 0
       /\ "UF_QUERY" \in DOMAIN fl => Sharps(v, Stop(fl, "UF_QUERY"), fl["UF_FRAGMENT"].off)
       /\ "UF_QUERY" \notin DOMAIN fl => Marks(v, AfterPath(fl, e), fl["UF_FRAGMENT"].off)
  BY <1>1, <1>2, <1>3, MarksStay DEF Frame
<1>9. "UF_SCHEMA" \in DOMAIN fl => fl["UF_SCHEMA"].off = 0 /\ fl["UF_SCHEMA"].len > 0
  BY DEF Frame
<1>10. QED
  BY <1>2, <1>4, <1>5, <1>6, <1>7, <1>8, <1>9 DEF Frame

\* What holds of the first loop.
Loop(fl, u, st, uf) ==
  /\ Spans(fl) /\ Len(u) \in Nat /\ st \in UrlStates
  /\ Frame(fl, u, st, HostStop(fl)) /\ Trailing(fl, u, st, HostStop(fl)) /\ Reading(fl, st, uf)

FieldStates == HostFields \cup {"s_req_schema", "s_req_path", "s_req_query_string", "s_req_fragment"}

\* The fields of the states.
LEMMA FieldsOfStates ==
  /\ DOMAIN FieldOf = FieldStates
  /\ FieldOf["s_req_schema"] = "UF_SCHEMA" /\ FieldOf["s_req_server"] = "UF_HOST"
  /\ FieldOf["s_req_server_with_at"] = "UF_HOST" /\ FieldOf["s_req_path"] = "UF_PATH"
  /\ FieldOf["s_req_query_string"] = "UF_QUERY" /\ FieldOf["s_req_fragment"] = "UF_FRAGMENT"
BY ZenonT(60) DEF FieldOf, FieldStates, HostFields

\* The states that may follow a state, and what is read on the way.
LEMMA NextStates ==
  ASSUME NEW st \in UrlStates, NEW ch, NEW r, r = parse_url_char(st, ch), r # "s_dead"
  PROVE  /\ st = "s_req_spaces_before_url" =>
              (ch = "/" /\ r = "s_req_path") \/ r = "s_req_schema"
         /\ st = "s_req_schema" => r = st \/ (ch = ":" /\ r = "s_req_schema_slash")
         /\ st = "s_req_schema_slash" => ch = "/" /\ r = "s_req_schema_slash_slash"
         /\ st = "s_req_schema_slash_slash" => ch = "/" /\ r = "s_req_server_start"
         /\ st \in HostFields \cup {"s_req_server_start"} =>
              \/ ch = "/" /\ r = "s_req_path"
              \/ ch = "?" /\ r = "s_req_query_string_start"
              \/ r \in HostFields
         /\ st = "s_req_path" =>
              \/ r = st
              \/ ch = "?" /\ r = "s_req_query_string_start"
              \/ ch = "#" /\ r = "s_req_fragment_start"
         /\ st \in {"s_req_query_string_start", "s_req_query_string"} =>
              (ch = "#" /\ r = "s_req_fragment_start") \/ r = "s_req_query_string"
         /\ st = "s_req_fragment_start" => (ch = "#" /\ r = st) \/ r = "s_req_fragment"
         /\ st = "s_req_fragment" => r = st
BY DEF UrlStates, HostFields, parse_url_char, IS_URL_CHAR

\* The states that come before the states of the fields.
LEMMA PriorStates ==
  ASSUME NEW st \in UrlStates, NEW ch, NEW r, r = parse_url_char(st, ch)
  PROVE  /\ r = "s_req_schema" => st \in {"s_req_spaces_before_url", "s_req_schema"}
         /\ r \in HostFields => st \in HostFields \cup {"s_req_server_start"}
         /\ r = "s_req_path" => \/ st = "s_req_path"
                               \/ /\ st \in HostFields \cup {"s_req_spaces_before_url", "s_req_server_start"}
                                  /\ ch = "/"
         /\ r = "s_req_query_string" => st \in {"s_req_query_string_start", "s_req_query_string"}
         /\ r = "s_req_fragment" => st \in {"s_req_fragment_start", "s_req_fragment"}
BY DEF UrlStates, HostFields, parse_url_char, IS_URL_CHAR

\* A character that is in no field leaves the fields alone.
LEMMA DelimiterRead ==
  ASSUME NEW fl, NEW u, NEW v, NEW ch, NEW st, NEW uf, NEW r, Loop(fl, u, st, uf), Extends(u, v, ch),
         r = parse_url_char(st, ch), r # "s_dead", r \notin FieldStates
  PROVE  Loop(fl, v, r, uf)
<1> DEFINE e == HostStop(fl)
<1>1. /\ Spans(fl) /\ st \in UrlStates /\ Frame(fl, u, st, e) /\ Trailing(fl, u, st, e) /\ Reading(fl, st, uf)
      /\ Len(u) \in Nat /\ Len(v) = Len(u) + 1 /\ Len(v) \in Nat /\ v[Len(v)] = ch
      /\ \A i \in 1 .. Len(u) : v[i] = u[i]
  BY DEF Loop, Extends
<1>2. e \in Nat
  BY <1>1, SpansAre DEF HostStop
<1>3. \A f \in DOMAIN fl : fl[f].off \in Nat /\ fl[f].len \in Nat /\ Stop(fl, f) \in Nat
  BY <1>1, SpansAre
<1> HIDE DEF e
<1>4. /\ Begin(fl) \in Nat /\ AfterHost(fl, e) \in Nat /\ AfterPath(fl, e) \in Nat
      /\ st \notin SchemaStates => Frame(fl, v, r, e)
      /\ r \in SchemaStates => Frame(fl, v, r, e)
  BY <1>1, <1>2, FrameStays
<1>5. CASE st = "s_req_schema"
  <2>1. ch = ":" /\ r = "s_req_schema_slash"
    BY <1>1, <1>5, NextStates DEF FieldStates
  <2>2. Trailing(fl, v, r, e)
    BY <1>1, <1>3, <1>5, <2>1 DEF Trailing, One, HostFields
  <2>3. QED
    BY <1>1, <1>4, <2>1, <2>2 DEF Loop, Reading, UrlStates, SchemaStates, HostFields, e
<1>6. CASE st = "s_req_schema_slash"
  <2>1. ch = "/" /\ r = "s_req_schema_slash_slash"
    BY <1>1, <1>6, NextStates DEF FieldStates
  <2>2. Trailing(fl, v, r, e)
    BY <1>1, <1>3, <1>6, <2>1 DEF Trailing, One, HostFields
  <2>3. QED
    BY <1>1, <1>4, <2>1, <2>2 DEF Loop, Reading, UrlStates, SchemaStates, HostFields, e
<1>7. CASE st = "s_req_schema_slash_slash"
  <2>1. ch = "/" /\ r = "s_req_server_start"
    BY <1>1, <1>7, NextStates DEF FieldStates
  <2>2. /\ DOMAIN fl = {"UF_SCHEMA"} /\ Begin(fl) = Len(v)
        /\ v[Begin(fl) - 2] = ":" /\ v[Begin(fl) - 1] = "/" /\ v[Begin(fl)] = "/"
    BY <1>1, <1>3, <1>7, <2>1 DEF Trailing, One, HostFields, Begin
  <2>3. Trailing(fl, v, r, e)
    BY <1>1, <1>3, <1>7, <2>1, <2>2 DEF Trailing, One, HostFields
  <2>4. Frame(fl, v, r, e)
    BY <1>1, <1>4, <2>1, <2>2 DEF Frame, SchemaStates
  <2>5. QED
    BY <1>1, <1>4, <2>1, <2>3, <2>4 DEF Loop, Reading, UrlStates, SchemaStates, HostFields, e
<1>8. CASE st \in HostFields \cup {"s_req_server_start", "s_req_path"} /\ ch = "?"
  <2>1. r = "s_req_query_string_start" /\ st \notin SchemaStates
    BY <1>1, <1>8, NextStates DEF FieldStates, HostFields, SchemaStates
  <2>2. /\ "UF_QUERY" \notin DOMAIN fl /\ "UF_FRAGMENT" \notin DOMAIN fl
        /\ AfterPath(fl, e) = Len(u)
    BY <1>1, <1>8 DEF Trailing, HostFields, NoPath, AfterPath, AfterHost
  <2>3. Trailing(fl, v, r, e)
    BY <1>1, <1>8, <2>1, <2>2 DEF Trailing, One, HostFields
  <2>4. QED
    BY <1>1, <1>4, <2>1, <2>3 DEF Loop, Reading, UrlStates, HostFields, e
<1>9. CASE /\ st \in {"s_req_path", "s_req_query_string_start", "s_req_query_string", "s_req_fragment_start"}
           /\ ch = "#"
  <2>1. r = "s_req_fragment_start" /\ st \notin SchemaStates
    BY <1>1, <1>9, NextStates DEF FieldStates, HostFields, SchemaStates
  <2>2. "UF_FRAGMENT" \notin DOMAIN fl
    BY <1>1, <1>9 DEF Trailing
  <2>3. ASSUME "UF_QUERY" \in DOMAIN fl PROVE Sharps(v, Stop(fl, "UF_QUERY"), Len(v))
    BY <1>1, <1>3, <1>9, <2>3, MarksGrow DEF Trailing
  <2>4. ASSUME "UF_QUERY" \notin DOMAIN fl PROVE Marks(v, AfterPath(fl, e), Len(v))
    BY <1>1, <1>4, <1>9, <2>4, MarksGrow DEF Trailing, AfterPath
  <2>5. Trailing(fl, v, r, e)
    BY <2>1, <2>2, <2>3, <2>4 DEF Trailing, HostFields
  <2>6. QED
    BY <1>1, <1>4, <2>1, <2>5 DEF Loop, Reading, UrlStates, HostFields, e
<1>10. QED
  BY <1>1, <1>5, <1>6, <1>7, <1>8, <1>9, NextStates DEF UrlStates, FieldStates, HostFields

\* The spans after a character was added to one of them.
LEMMA GrownSpans ==
  ASSUME NEW fl, NEW gl, NEW f, NEW n \in Nat, Spans(fl), f \in Names, gl = [g \in DOMAIN gl |-> gl[g]],
         gl[f] = [off |-> gl[f].off, len |-> gl[f].len], Grown(fl, gl, f) \/ Opened(fl, gl, f, n)
  PROVE  Spans(gl)
<1>1. \A g \in DOMAIN fl : g \in Names /\ fl[g].off \in Nat /\ fl[g].len \in Nat /\ fl[g] \in [off : Nat, len : Nat]
  BY SpansAre
<1>2. gl[f].off \in Nat /\ gl[f].len \in Nat
  BY <1>1 DEF Grown, Opened
<1>3. gl[f] \in [off : Nat, len : Nat]
  BY <1>2
<1>4. \A g \in DOMAIN gl : g \in Names /\ gl[g] \in [off : Nat, len : Nat]
  BY <1>1, <1>3 DEF Grown, Opened
<1>5. QED
  BY <1>4 DEF Spans

\* A character of the field that the last one was in.
LEMMA FieldGoesOn ==
  ASSUME NEW fl, NEW gl, NEW u, NEW v, NEW ch, NEW st, NEW uf, NEW r, Loop(fl, u, st, uf), Extends(u, v, ch),
         r = parse_url_char(st, ch), r \in FieldStates, uf = FieldOf[r], Spans(gl), Grown(fl, gl, uf)
  PROVE  Loop(gl, v, r, uf)
<1> DEFINE e == HostStop(fl)
           d == HostStop(gl)
<1>1. /\ Spans(fl) /\ st \in UrlStates /\ Frame(fl, u, st, e) /\ Trailing(fl, u, st, e) /\ Reading(fl, st, uf)
      /\ Len(u) \in Nat /\ Len(v) = Len(u) + 1 /\ Len(v) \in Nat /\ v[Len(v)] = ch
      /\ \A i \in 1 .. Len(u) : v[i] = u[i]
  BY DEF Loop, Extends
<1>2. e \in Nat /\ d \in Nat
  BY <1>1, SpansAre DEF HostStop
<1>3. \A f \in DOMAIN fl : fl[f].off \in Nat /\ fl[f].len \in Nat /\ Stop(fl, f) \in Nat
  BY <1>1, SpansAre
<1>4. /\ uf \in DOMAIN fl /\ DOMAIN gl = DOMAIN fl
      /\ gl[uf].off = fl[uf].off /\ gl[uf].len = fl[uf].len + 1 /\ Stop(gl, uf) = Stop(fl, uf) + 1
      /\ \A g \in DOMAIN fl \ {uf} : gl[g] = fl[g] /\ Stop(gl, g) = Stop(fl, g)
  BY <1>1, GrownStops
<1>5. /\ "UF_HOST" \in DOMAIN fl => e = Stop(fl, "UF_HOST") /\ d = Stop(gl, "UF_HOST")
      /\ "UF_HOST" \notin DOMAIN fl => d = e
  BY <1>4 DEF HostStop
<1> HIDE DEF e, d
<1>6. /\ Begin(fl) \in Nat /\ AfterHost(fl, e) \in Nat /\ AfterPath(fl, e) \in Nat
      /\ st \notin SchemaStates => Frame(fl, v, r, e)
      /\ r \in SchemaStates => Frame(fl, v, r, e)
  BY <1>1, <1>2, FrameStays
<1>7. /\ r = "s_req_schema" => st \in {"s_req_spaces_before_url", "s_req_schema"}
      /\ r \in HostFields => st \in HostFields \cup {"s_req_server_start"}
      /\ r = "s_req_path" => \/ st = "s_req_path"
                            \/ /\ st \in HostFields \cup {"s_req_spaces_before_url", "s_req_server_start"}
                               /\ ch = "/"
      /\ r = "s_req_query_string" => st \in {"s_req_query_string_start", "s_req_query_string"}
      /\ r = "s_req_fragment" => st \in {"s_req_fragment_start", "s_req_fragment"}
  <2>1. st \in UrlStates
    BY <1>1
  <2>2. QED
    BY <2>1, PriorStates, Zenon
<1>8. CASE r = "s_req_schema"
  <2>1. uf = "UF_SCHEMA" /\ st = "s_req_schema"
    <3>1. uf = "UF_SCHEMA"
      BY <1>8, FieldsOfStates
    <3>2. QED
      BY <1>1, <1>4, <1>7, <1>8, <3>1 DEF HostFields, Trailing, NoPath, Reading
  <2>2. DOMAIN gl = {"UF_SCHEMA"} /\ Stop(gl, "UF_SCHEMA") = Len(v)
    BY <1>1, <1>4, <2>1 DEF Trailing
  <2>3. Frame(gl, v, r, d)
    BY <1>1, <1>3, <1>4, <1>6, <1>8, <2>1, <2>2 DEF Frame, SchemaStates
  <2>4. Trailing(gl, v, r, d)
    BY <1>8, <2>2 DEF Trailing, HostFields
  <2>5. Reading(gl, r, uf)
    BY <1>1, <1>8, <2>1, <2>2 DEF Reading, HostFields
  <2>6. QED
    BY <1>1, <1>8, <2>3, <2>4, <2>5 DEF Loop, UrlStates, d
<1>9. CASE r \in HostFields
  <2>1. uf = "UF_HOST" /\ st \in HostFields
    BY <1>1, <1>4, <1>7, <1>9, FieldsOfStates DEF HostFields, Trailing, NoPath, Reading
  <2>2. NoPath(gl) /\ d = Len(v) /\ d = e + 1 /\ Begin(gl) = Begin(fl)
    BY <1>1, <1>4, <1>5, <2>1 DEF Trailing, NoPath, Begin
  <2>3. Frame(gl, v, r, d)
    <3>1. Frame(fl, v, r, e)
      BY <1>6, <2>1 DEF HostFields, SchemaStates
    <3>2. QED
      BY <1>1, <1>2, <1>4, <1>6, <1>9, <2>1, <2>2, <3>1 DEF Frame, SchemaStates, NoPath
  <2>4. Trailing(gl, v, r, d)
    BY <1>4, <1>9, <2>1, <2>2 DEF Trailing, HostFields
  <2>5. Reading(gl, r, uf)
    BY <1>1, <1>4, <1>9, <2>1, <2>2 DEF Reading, HostFields
  <2>6. QED
    BY <1>1, <1>9, <2>3, <2>4, <2>5 DEF Loop, UrlStates, HostFields, d
<1>10. CASE r = "s_req_path"
  <2>1. uf = "UF_PATH" /\ st = "s_req_path"
    <3>1. uf = "UF_PATH"
      BY <1>10, FieldsOfStates
    <3>2. QED
      BY <1>1, <1>4, <1>7, <1>10, <3>1 DEF HostFields, Trailing, NoPath, Reading
  <2>2. d = e /\ Begin(gl) = Begin(fl) /\ AfterHost(gl, d) = AfterHost(fl, e)
    BY <1>4, <1>5, <2>1 DEF Begin, AfterHost
  <2>3. "UF_QUERY" \notin DOMAIN gl /\ "UF_FRAGMENT" \notin DOMAIN gl /\ Stop(gl, "UF_PATH") = Len(v)
    BY <1>1, <1>4, <2>1 DEF Trailing
  <2>4. Frame(gl, v, r, d)
    <3>1. Frame(fl, v, r, e)
      BY <1>6, <2>1 DEF SchemaStates
    <3>2. QED
      BY <1>1, <1>3, <1>4, <2>1, <2>2, <2>3, <3>1 DEF Frame
  <2>5. Trailing(gl, v, r, d)
    BY <1>4, <1>10, <2>1, <2>3 DEF Trailing, HostFields
  <2>6. Reading(gl, r, uf)
    BY <1>1, <1>4, <1>10, <2>1, <2>2 DEF Reading, HostFields
  <2>7. QED
    BY <1>1, <1>10, <2>4, <2>5, <2>6 DEF Loop, UrlStates, d
<1>11. CASE r = "s_req_query_string"
  <2>1. uf = "UF_QUERY" /\ st = "s_req_query_string"
    <3>1. uf = "UF_QUERY"
      BY <1>11, FieldsOfStates
    <3>2. QED
      BY <1>1, <1>4, <1>7, <1>11, <3>1 DEF HostFields, Trailing, NoPath, Reading
  <2>2. /\ d = e /\ Begin(gl) = Begin(fl) /\ AfterHost(gl, d) = AfterHost(fl, e)
        /\ AfterPath(gl, d) = AfterPath(fl, e)
    BY <1>4, <1>5, <2>1 DEF Begin, AfterHost, AfterPath
  <2>3. "UF_FRAGMENT" \notin DOMAIN gl /\ Stop(gl, "UF_QUERY") = Len(v)
    BY <1>1, <1>4, <2>1 DEF Trailing
  <2>4. Frame(gl, v, r, d)
    <3>1. Frame(fl, v, r, e)
      BY <1>6, <2>1 DEF SchemaStates
    <3>2. QED
      BY <1>1, <1>3, <1>4, <2>1, <2>2, <2>3, <3>1 DEF Frame
  <2>5. Trailing(gl, v, r, d)
    BY <1>4, <1>11, <2>1, <2>3 DEF Trailing, HostFields
  <2>6. Reading(gl, r, uf)
    BY <1>1, <1>4, <1>11, <2>1, <2>2 DEF Reading, HostFields
  <2>7. QED
    BY <1>1, <1>11, <2>4, <2>5, <2>6 DEF Loop, UrlStates, d
<1>12. CASE r = "s_req_fragment"
  <2>1. uf = "UF_FRAGMENT" /\ st = "s_req_fragment"
    <3>1. uf = "UF_FRAGMENT"
      BY <1>12, FieldsOfStates
    <3>2. QED
      BY <1>1, <1>4, <1>7, <1>12, <3>1 DEF HostFields, Trailing, NoPath, Reading
  <2>2. /\ d = e /\ Begin(gl) = Begin(fl) /\ AfterHost(gl, d) = AfterHost(fl, e)
        /\ AfterPath(gl, d) = AfterPath(fl, e)
    BY <1>4, <1>5, <2>1 DEF Begin, AfterHost, AfterPath
  <2>3. Stop(gl, "UF_FRAGMENT") = Len(v)
    BY <1>1, <1>4, <2>1 DEF Trailing
  <2>4. Frame(gl, v, r, d)
    <3>1. Frame(fl, v, r, e)
      BY <1>6, <2>1 DEF SchemaStates
    <3>2. QED
      <4>1. /\ gl["UF_FRAGMENT"].off = fl["UF_FRAGMENT"].off /\ gl["UF_FRAGMENT"].len > 0
            /\ \A g \in {"UF_SCHEMA", "UF_HOST", "UF_PATH", "UF_QUERY"} :
                 g \in DOMAIN gl => g \in DOMAIN fl /\ gl[g] = fl[g] /\ Stop(gl, g) = Stop(fl, g)
        BY <1>3, <1>4, <2>1
      <4>2. QED
        BY <1>1, <1>4, <2>1, <2>2, <3>1, <4>1 DEF Frame
  <2>5. Trailing(gl, v, r, d)
    BY <1>4, <1>12, <2>1, <2>3 DEF Trailing, HostFields
  <2>6. Reading(gl, r, uf)
    BY <1>1, <1>4, <1>12, <2>1, <2>2 DEF Reading, HostFields
  <2>7. QED
    BY <1>1, <1>12, <2>4, <2>5, <2>6 DEF Loop, UrlStates, d
<1>13. QED
  BY <1>8, <1>9, <1>10, <1>11, <1>12 DEF FieldStates

\* The first character of a field.
LEMMA FieldOpens ==
  ASSUME NEW fl, NEW gl, NEW u, NEW v, NEW ch, NEW st, NEW uf, NEW r, NEW f, Loop(fl, u, st, uf), Extends(u, v, ch),
         r = parse_url_char(st, ch), r \in FieldStates, f = FieldOf[r], f # uf,
         Spans(gl), Opened(fl, gl, f, Len(u))
  PROVE  Loop(gl, v, r, f)
<1> DEFINE e == HostStop(fl)
           d == HostStop(gl)
<1>1. /\ Spans(fl) /\ st \in UrlStates /\ Frame(fl, u, st, e) /\ Trailing(fl, u, st, e) /\ Reading(fl, st, uf)
      /\ Len(u) \in Nat /\ Len(v) = Len(u) + 1 /\ Len(v) \in Nat /\ v[Len(v)] = ch
      /\ \A i \in 1 .. Len(u) : v[i] = u[i]
  BY DEF Loop, Extends
<1>2. e \in Nat /\ d \in Nat
  BY <1>1, SpansAre DEF HostStop
<1>3. \A g \in DOMAIN fl : fl[g].off \in Nat /\ fl[g].len \in Nat /\ Stop(fl, g) \in Nat
  BY <1>1, SpansAre
<1>4. /\ DOMAIN gl = DOMAIN fl \cup {f}
      /\ gl[f].off = Len(u) /\ gl[f].len = 1 /\ Stop(gl, f) = Len(v)
      /\ \A g \in DOMAIN fl \ {f} : gl[g] = fl[g] /\ Stop(gl, g) = Stop(fl, g)
  BY <1>1 DEF Opened, Stop
<1>5. /\ "UF_HOST" \in DOMAIN fl => e = Stop(fl, "UF_HOST")
      /\ "UF_HOST" \in DOMAIN gl => d = Stop(gl, "UF_HOST")
      /\ "UF_HOST" \notin DOMAIN fl => e = 0
      /\ "UF_HOST" \notin DOMAIN gl => d = 0
  BY DEF HostStop
<1> HIDE DEF e, d
<1>6. /\ Begin(fl) \in Nat /\ AfterHost(fl, e) \in Nat /\ AfterPath(fl, e) \in Nat
      /\ st \notin SchemaStates => Frame(fl, v, r, e)
      /\ r \in SchemaStates => Frame(fl, v, r, e)
  BY <1>1, <1>2, FrameStays
<1>7. /\ r = "s_req_schema" => st \in {"s_req_spaces_before_url", "s_req_schema"}
      /\ r \in HostFields => st \in HostFields \cup {"s_req_server_start"}
      /\ r = "s_req_path" => \/ st = "s_req_path"
                            \/ /\ st \in HostFields \cup {"s_req_spaces_before_url", "s_req_server_start"}
                               /\ ch = "/"
      /\ r = "s_req_query_string" => st \in {"s_req_query_string_start", "s_req_query_string"}
      /\ r = "s_req_fragment" => st \in {"s_req_fragment_start", "s_req_fragment"}
  <2>1. st \in UrlStates
    BY <1>1
  <2>2. QED
    BY <2>1, PriorStates, Zenon
<1>8. CASE r = "s_req_schema"
  <2>1. f = "UF_SCHEMA" /\ st = "s_req_spaces_before_url"
    <3>1. f = "UF_SCHEMA"
      BY <1>8, FieldsOfStates
    <3>2. QED
      BY <1>1, <1>4, <1>7, <1>8, <3>1 DEF HostFields, Trailing, NoPath, Reading
  <2>2. DOMAIN gl = {"UF_SCHEMA"} /\ gl["UF_SCHEMA"].off = 0 /\ gl["UF_SCHEMA"].len = 1
    BY <1>1, <1>4, <2>1 DEF Trailing
  <2>3. Frame(gl, v, r, d)
    <3>1. gl["UF_SCHEMA"].off = 0 /\ gl["UF_SCHEMA"].len > 0 /\ r \in SchemaStates
      BY <1>8, <2>2 DEF SchemaStates
    <3>2. QED
      BY <2>2, <3>1 DEF Frame
  <2>4. Trailing(gl, v, r, d)
    BY <1>4, <1>8, <2>1, <2>2 DEF Trailing, HostFields
  <2>5. Reading(gl, r, f)
    BY <1>8, <2>1, <2>2 DEF Reading, HostFields
  <2>6. QED
    BY <1>1, <1>8, <2>3, <2>4, <2>5 DEF Loop, UrlStates, d
<1>9. CASE r \in HostFields
  <2>1. f = "UF_HOST" /\ st = "s_req_server_start"
    BY <1>1, <1>4, <1>7, <1>9, FieldsOfStates DEF HostFields, Trailing, NoPath, Reading
  <2>2. /\ NoPath(gl) /\ d = Len(v) /\ Begin(gl) = Begin(fl) /\ Begin(fl) = Len(u)
        /\ "UF_USERINFO" \notin DOMAIN gl /\ "UF_PORT" \notin DOMAIN gl
    BY <1>1, <1>4, <1>5, <2>1 DEF Trailing, NoPath, Begin, HostFields
  <2>3. Frame(gl, v, r, d)
    <3>1. Frame(fl, v, r, e)
      BY <1>6, <2>1 DEF SchemaStates
    <3>2. QED
      BY <1>1, <1>2, <1>4, <1>6, <1>9, <2>1, <2>2, <3>1 DEF Frame, SchemaStates, NoPath
  <2>4. Trailing(gl, v, r, d)
    BY <1>4, <1>9, <2>1, <2>2 DEF Trailing, HostFields
  <2>5. Reading(gl, r, f)
    BY <1>1, <1>4, <1>9, <2>1, <2>2 DEF Reading, HostFields
  <2>6. QED
    BY <1>1, <1>9, <2>3, <2>4, <2>5 DEF Loop, UrlStates, HostFields, d
<1>10. CASE r = "s_req_path"
  <2>1. f = "UF_PATH" /\ ch = "/" /\ st \in HostFields \cup {"s_req_spaces_before_url", "s_req_server_start"}
    <3>1. f = "UF_PATH"
      BY <1>10, FieldsOfStates
    <3>2. QED
      BY <1>1, <1>4, <1>7, <1>10, <3>1 DEF HostFields, Trailing, NoPath, Reading
  <2>2. NoPath(fl) /\ AfterHost(fl, e) = Len(u)
    BY <1>1, <1>5, <2>1 DEF Trailing, NoPath, AfterHost, Begin, HostFields
  <2>3. /\ d = e /\ Begin(gl) = Begin(fl) /\ AfterHost(gl, d) = AfterHost(fl, e)
        /\ "UF_QUERY" \notin DOMAIN gl /\ "UF_FRAGMENT" \notin DOMAIN gl
    BY <1>4, <1>5, <2>1, <2>2 DEF Begin, AfterHost, NoPath
  <2>4. Frame(gl, v, r, d)
    <3>1. Frame(fl, v, r, e)
      BY <1>6, <2>1 DEF SchemaStates, HostFields
    <3>2. QED
      BY <1>1, <1>3, <1>4, <2>1, <2>2, <2>3, <3>1 DEF Frame, One
  <2>5. Trailing(gl, v, r, d)
    BY <1>4, <1>10, <2>1, <2>3 DEF Trailing, HostFields
  <2>6. Reading(gl, r, f)
    BY <1>1, <1>4, <1>10, <2>1, <2>3 DEF Reading, HostFields
  <2>7. QED
    BY <1>1, <1>10, <2>4, <2>5, <2>6 DEF Loop, UrlStates, d
<1>11. CASE r = "s_req_query_string"
  <2>1. f = "UF_QUERY" /\ st = "s_req_query_string_start"
    <3>1. f = "UF_QUERY"
      BY <1>11, FieldsOfStates
    <3>2. QED
      BY <1>1, <1>4, <1>7, <1>11, <3>1 DEF HostFields, Trailing, NoPath, Reading
  <2>2. "UF_QUERY" \notin DOMAIN fl /\ "UF_FRAGMENT" \notin DOMAIN fl /\ One(u, AfterPath(fl, e), Len(u), "?")
    BY <1>1, <2>1 DEF Trailing
  <2>3. /\ d = e /\ Begin(gl) = Begin(fl) /\ AfterHost(gl, d) = AfterHost(fl, e)
        /\ AfterPath(gl, d) = AfterPath(fl, e) /\ "UF_FRAGMENT" \notin DOMAIN gl
    BY <1>4, <1>5, <2>1, <2>2 DEF Begin, AfterHost, AfterPath
  <2>4. One(v, AfterPath(gl, d), Len(u), "?")
    BY <1>1, <1>6, <2>2, <2>3, MarksStay
  <2>5. Frame(gl, v, r, d)
    <3>1. Frame(fl, v, r, e)
      BY <1>6, <2>1 DEF SchemaStates
    <3>2. QED
      BY <1>1, <1>3, <1>4, <2>1, <2>2, <2>3, <2>4, <3>1 DEF Frame
  <2>6. Trailing(gl, v, r, d)
    BY <1>4, <1>11, <2>1, <2>3 DEF Trailing, HostFields
  <2>7. Reading(gl, r, f)
    BY <1>1, <1>4, <1>11, <2>1, <2>3 DEF Reading, HostFields
  <2>8. QED
    BY <1>1, <1>11, <2>5, <2>6, <2>7 DEF Loop, UrlStates, d
<1>12. CASE r = "s_req_fragment"
  <2>1. f = "UF_FRAGMENT" /\ st = "s_req_fragment_start"
    <3>1. f = "UF_FRAGMENT"
      BY <1>12, FieldsOfStates
    <3>2. QED
      BY <1>1, <1>4, <1>7, <1>12, <3>1 DEF HostFields, Trailing, NoPath, Reading
  <2>2. /\ "UF_FRAGMENT" \notin DOMAIN fl
        /\ "UF_QUERY" \in DOMAIN fl => Sharps(u, Stop(fl, "UF_QUERY"), Len(u))
        /\ "UF_QUERY" \notin DOMAIN fl => Marks(u, AfterPath(fl, e), Len(u))
    BY <1>1, <2>1 DEF Trailing
  <2>3. /\ d = e /\ Begin(gl) = Begin(fl) /\ AfterHost(gl, d) = AfterHost(fl, e)
        /\ AfterPath(gl, d) = AfterPath(fl, e)
    BY <1>4, <1>5, <2>1, <2>2 DEF Begin, AfterHost, AfterPath
  <2>4. /\ "UF_QUERY" \in DOMAIN gl => Sharps(v, Stop(gl, "UF_QUERY"), Len(u))
        /\ "UF_QUERY" \notin DOMAIN gl => Marks(v, AfterPath(gl, d), Len(u))
    BY <1>1, <1>3, <1>4, <1>6, <2>1, <2>2, <2>3, MarksStay
  <2>5. Frame(gl, v, r, d)
    <3>1. Frame(fl, v, r, e)
      BY <1>6, <2>1 DEF SchemaStates
    <3>2. QED
      BY <1>1, <1>3, <1>4, <2>1, <2>2, <2>3, <2>4, <3>1 DEF Frame
  <2>6. Trailing(gl, v, r, d)
    BY <1>4, <1>12, <2>1 DEF Trailing, HostFields
  <2>7. Reading(gl, r, f)
    BY <1>1, <1>4, <1>12, <2>1, <2>3 DEF Reading, HostFields
  <2>8. QED
    BY <1>1, <1>12, <2>5, <2>6, <2>7 DEF Loop, UrlStates, d
<1>13. QED
  BY <1>8, <1>9, <1>10, <1>11, <1>12 DEF FieldStates

-----------------------------------------------------------------------------
(* The steps of http_parse_host *)

\* The fields gl differ from fl in what http_parse_host writes at most.
HostWritten(fl, gl) ==
  /\ DOMAIN fl \subseteq DOMAIN gl /\ DOMAIN gl \subseteq DOMAIN fl \cup {"UF_USERINFO", "UF_PORT"}
  /\ \A f \in DOMAIN fl \ {"UF_USERINFO", "UF_HOST", "UF_PORT"} : gl[f] = fl[f]

\* The frame stays as it is while the host is split.
LEMMA FrameKept ==
  ASSUME NEW fl, NEW gl, NEW u, NEW st, NEW e, "UF_HOST" \in DOMAIN fl, HostWritten(fl, gl)
  PROVE  /\ Frame(fl, u, st, e) => Frame(gl, u, st, e)
         /\ Trailing(fl, u, st, e) => Trailing(gl, u, st, e)
         /\ Begin(gl) = Begin(fl)
<1>1. \A f \in Names \ {"UF_USERINFO", "UF_HOST", "UF_PORT"} :
        (f \in DOMAIN gl <=> f \in DOMAIN fl) /\ (f \in DOMAIN gl => gl[f] = fl[f] /\ Stop(gl, f) = Stop(fl, f))
  BY DEF HostWritten, Names, Stop
<1>2. "UF_HOST" \in DOMAIN gl
  BY DEF HostWritten
<1>3. /\ Begin(gl) = Begin(fl) /\ AfterHost(gl, e) = AfterHost(fl, e)
      /\ AfterPath(gl, e) = AfterPath(fl, e) /\ (NoPath(gl) <=> NoPath(fl))
  BY <1>1, <1>2 DEF Begin, AfterHost, AfterPath, NoPath, Names
<1>4. Frame(fl, u, st, e) => Frame(gl, u, st, e)
  BY <1>1, <1>2, <1>3 DEF Frame, Names
<1>5. Trailing(fl, u, st, e) => Trailing(gl, u, st, e)
  BY <1>1, <1>2, <1>3 DEF Trailing, Names
<1>6. QED
  BY <1>3, <1>4, <1>5

HostFieldStates == AddressStates \cup {"s_http_host", "s_http_host_port", "s_http_userinfo"}

\* The fields of the states.
LEMMA HostFieldsOfStates ==
  /\ DOMAIN HostFieldOf = HostFieldStates
  /\ HostFieldOf["s_http_userinfo"] = "UF_USERINFO" /\ HostFieldOf["s_http_host_port"] = "UF_PORT"
  /\ \A r \in AddressStates \cup {"s_http_host"} : HostFieldOf[r] = "UF_HOST"
BY ZenonT(60) DEF HostFieldOf, HostFieldStates, AddressStates

\* The states that come before a state, and what is read on the way.
LEMMA PriorHostStates ==
  ASSUME NEW st \in HostStates, NEW ch, NEW r, r = http_parse_host_char(st, ch), r # "s_http_host_dead"
  PROVE  /\ r \in HostStates \ {"s_http_userinfo_start"}
         /\ r = "s_http_userinfo" => st \in {"s_http_userinfo_start", "s_http_userinfo"}
         /\ r = "s_http_host_start" => st \in {"s_http_userinfo_start", "s_http_userinfo"} /\ ch = "@"
         /\ r = "s_http_host_v6_start" => st = "s_http_host_start" /\ ch = "["
         /\ r = "s_http_host" => st \in {"s_http_host_start", "s_http_host"}
         /\ r \in AddressStates => st \in AddressStates \cup {"s_http_host_v6_start"}
         /\ r \in AddressStates /\ st = "s_http_host_v6_start" => r = "s_http_host_v6"
         /\ r \in AddressStates /\ st \in AddressStates => r = st \/ r \in Zone
         /\ r = "s_http_host_v6_end" => st \in AddressStates /\ ch = "]"
         /\ r = "s_http_host_port_start" => st \in {"s_http_host", "s_http_host_v6_end"} /\ ch = ":"
         /\ r = "s_http_host_port" => st \in {"s_http_host_port_start", "s_http_host_port"} /\ ch = "1"
BY DEF HostStates, AddressStates, OpeningStates, Zone, http_parse_host_char, IS_HOST_CHAR, IS_USERINFO_CHAR

\* A character that is in no field of the host.
LEMMA HostDelimiter ==
  ASSUME NEW fl, NEW u, NEW st \in HostStates, NEW p \in Nat, NEW r, Spans(fl), Len(u) \in Nat,
         "UF_HOST" \in DOMAIN fl, Begin(fl) \in Nat, Split(fl, u, st, p), p + 1 <= Len(u),
         r = http_parse_host_char(st, u[p + 1]), r # "s_http_host_dead", r \notin HostFieldStates
  PROVE  Split(fl, u, r, p + 1)
<1> DEFINE ch == u[p + 1]
<1>1. \A f \in DOMAIN fl : fl[f].off \in Nat /\ fl[f].len \in Nat /\ Stop(fl, f) \in Nat
  BY SpansAre
<1>2. /\ r \in HostStates \ {"s_http_userinfo_start"}
      /\ r = "s_http_host_start" => st \in {"s_http_userinfo_start", "s_http_userinfo"} /\ ch = "@"
      /\ r = "s_http_host_v6_start" => st = "s_http_host_start" /\ ch = "["
      /\ r = "s_http_host_v6_end" => st \in AddressStates /\ ch = "]"
      /\ r = "s_http_host_port_start" => st \in {"s_http_host", "s_http_host_v6_end"} /\ ch = ":"
  BY PriorHostStates
<1>3. \A c : ch = c => One(u, p, p + 1, c)
  BY DEF One
<1> HIDE DEF ch
<1>4. CASE r = "s_http_host_start"
  <2>1. st \in {"s_http_userinfo_start", "s_http_userinfo"} /\ One(u, p, p + 1, "@")
    BY <1>2, <1>3, <1>4
  <2>2. OpensAt(fl, u, p + 1) /\ fl["UF_HOST"].len = 0 /\ "UF_PORT" \notin DOMAIN fl
    BY <1>1, <2>1 DEF Split, OpensAt, OpeningStates
  <2>3. QED
    BY <1>4, <2>2 DEF Split, AddressStates
<1>5. CASE r = "s_http_host_v6_start"
  <2>1. st = "s_http_host_start" /\ One(u, p, p + 1, "[")
    BY <1>2, <1>3, <1>5
  <2>2. OpensAt(fl, u, p) /\ fl["UF_HOST"].len = 0 /\ "UF_PORT" \notin DOMAIN fl
    BY <2>1 DEF Split, OpeningStates
  <2>3. p + 1 > 0 /\ p + 1 - 1 = p
    OBVIOUS
  <2>4. QED
    BY <1>5, <2>1, <2>2, <2>3 DEF Split, AddressStates
<1>6. CASE r = "s_http_host_v6_end"
  <2>1. st \in AddressStates /\ One(u, p, p + 1, "]")
    BY <1>2, <1>3, <1>6
  <2>2. AddressTo(fl, u, p) /\ "UF_PORT" \notin DOMAIN fl
    BY <2>1 DEF Split, AddressStates
  <2>3. Stop(fl, "UF_HOST") = p
    BY <2>2 DEF AddressTo
  <2>4. QED
    BY <1>6, <2>1, <2>2, <2>3 DEF Split, AddressStates, OpeningStates
<1>7. CASE r = "s_http_host_port_start"
  <2>1. st \in {"s_http_host", "s_http_host_v6_end"} /\ One(u, p, p + 1, ":")
    BY <1>2, <1>3, <1>7
  <2>2. HostTo(fl, u, p) /\ "UF_PORT" \notin DOMAIN fl
    BY <2>1 DEF Split, HostTo
  <2>3. p + 1 > 0 /\ p + 1 - 1 = p
    OBVIOUS
  <2>4. QED
    BY <1>7, <2>1, <2>2, <2>3 DEF Split, AddressStates, OpeningStates
<1>8. QED
  BY <1>2, <1>4, <1>5, <1>6, <1>7 DEF HostStates, HostFieldStates, OpeningStates

\* A character of the field that the last one was in.
LEMMA HostFieldGoesOn ==
  ASSUME NEW fl, NEW gl, NEW u, NEW st \in HostStates, NEW p \in Nat, NEW r, Spans(fl), Len(u) \in Nat,
         "UF_HOST" \in DOMAIN fl, Begin(fl) \in Nat, Split(fl, u, st, p), p + 1 <= Len(u),
         r = http_parse_host_char(st, u[p + 1]), r \in HostFieldStates, r = st \/ r \in Zone,
         Spans(gl), Grown(fl, gl, HostFieldOf[r])
  PROVE  HostWritten(fl, gl) /\ Split(gl, u, r, p + 1)
<1> DEFINE ch == u[p + 1]
           f == HostFieldOf[r]
<1>1. \A g \in DOMAIN fl : fl[g].off \in Nat /\ fl[g].len \in Nat /\ Stop(fl, g) \in Nat
  BY SpansAre
<1>2. r # "s_http_host_dead"
  BY DEF HostFieldStates, AddressStates
<1>3. /\ r \in AddressStates => st \in AddressStates \cup {"s_http_host_v6_start"}
      /\ r \in AddressStates /\ st = "s_http_host_v6_start" => r = "s_http_host_v6"
      /\ r = "s_http_host_port" => ch = "1"
  BY <1>2, PriorHostStates
<1>4. /\ f \in DOMAIN fl /\ DOMAIN gl = DOMAIN fl
      /\ gl[f].off = fl[f].off /\ gl[f].len = fl[f].len + 1 /\ Stop(gl, f) = Stop(fl, f) + 1
      /\ \A g \in DOMAIN fl \ {f} : gl[g] = fl[g] /\ Stop(gl, g) = Stop(fl, g)
  BY GrownStops
<1>5. /\ r = "s_http_userinfo" => f = "UF_USERINFO" /\ st = r
      /\ r = "s_http_host_port" => f = "UF_PORT" /\ st = r
      /\ r = "s_http_host" => f = "UF_HOST" /\ st = r
      /\ r \in AddressStates => f = "UF_HOST" /\ st \in AddressStates
  BY <1>3, HostFieldsOfStates DEF Zone, AddressStates
<1>6. f \in {"UF_USERINFO", "UF_HOST", "UF_PORT"}
  BY <1>5 DEF HostFieldStates
<1>7. HostWritten(fl, gl)
  BY <1>4, <1>6 DEF HostWritten
<1>8. Begin(gl) = Begin(fl)
  BY <1>7, FrameKept
<1> HIDE DEF ch, f
<1>9. CASE r = "s_http_userinfo"
  <2>1. /\ gl["UF_USERINFO"].off = Begin(gl) /\ gl["UF_USERINFO"].len > 0 /\ Stop(gl, "UF_USERINFO") = p + 1
        /\ gl["UF_HOST"].len = 0 /\ "UF_USERINFO" \in DOMAIN gl /\ "UF_PORT" \notin DOMAIN gl
    BY <1>1, <1>4, <1>5, <1>8, <1>9 DEF Split, OpeningStates
  <2>2. QED
    BY <1>7, <1>9, <2>1 DEF Split, AddressStates
<1>10. CASE r = "s_http_host"
  <2>1. NameTo(fl, u, p) /\ f = "UF_HOST" /\ "UF_PORT" \notin DOMAIN fl
    BY <1>5, <1>10 DEF Split
  <2>2. OpensAt(gl, u, gl["UF_HOST"].off)
    BY <1>4, <1>8, <2>1 DEF OpensAt, NameTo
  <2>3. NameTo(gl, u, p + 1)
    BY <1>1, <1>4, <2>1, <2>2 DEF NameTo
  <2>4. QED
    BY <1>4, <1>7, <1>10, <2>1, <2>3 DEF Split, AddressStates, OpeningStates
<1>11. CASE r \in AddressStates
  <2>1. AddressTo(fl, u, p) /\ f = "UF_HOST" /\ "UF_PORT" \notin DOMAIN fl
    BY <1>5, <1>11 DEF Split, AddressStates
  <2>2. OpensAt(gl, u, gl["UF_HOST"].off - 1)
    BY <1>4, <1>8, <2>1 DEF OpensAt, AddressTo
  <2>3. AddressTo(gl, u, p + 1)
    BY <1>1, <1>4, <2>1, <2>2 DEF AddressTo
  <2>4. QED
    BY <1>4, <1>7, <1>11, <2>1, <2>3 DEF Split, AddressStates, OpeningStates
<1>12. CASE r = "s_http_host_port"
  <2>1. PortTo(fl, u, p) /\ f = "UF_PORT" /\ ch = "1"
    BY <1>3, <1>5, <1>12 DEF Split
  <2>2. /\ gl["UF_HOST"] = fl["UF_HOST"] /\ Stop(gl, "UF_HOST") = Stop(fl, "UF_HOST")
        /\ "UF_USERINFO" \in DOMAIN fl => /\ gl["UF_USERINFO"] = fl["UF_USERINFO"]
                                        /\ Stop(gl, "UF_USERINFO") = Stop(fl, "UF_USERINFO")
    BY <1>4, <2>1
  <2>3. \A q : OpensAt(fl, u, q) => OpensAt(gl, u, q)
    BY <1>4, <1>8, <2>2 DEF OpensAt
  <2>4. \A q : HostTo(fl, u, q) => HostTo(gl, u, q)
    BY <2>2, <2>3 DEF HostTo, NameTo, AddressTo
  <2>5. \A i \in fl["UF_PORT"].off + 1 .. p + 1 : u[i] = "1"
    BY <1>1, <1>4, <2>1 DEF PortTo, ch
  <2>6. PortTo(gl, u, p + 1)
    BY <1>1, <1>4, <2>1, <2>4, <2>5 DEF PortTo
  <2>7. QED
    BY <1>4, <1>7, <1>12, <2>1, <2>6 DEF Split, AddressStates, OpeningStates
<1>13. QED
  BY <1>9, <1>10, <1>11, <1>12 DEF HostFieldStates

\* The first character of a field, or of a host in brackets.
LEMMA HostFieldOpens ==
  ASSUME NEW fl, NEW gl, NEW u, NEW st \in HostStates, NEW p \in Nat, NEW r, Spans(fl), Len(u) \in Nat,
         "UF_HOST" \in DOMAIN fl, Begin(fl) \in Nat, Split(fl, u, st, p), p + 1 <= Len(u),
         r = http_parse_host_char(st, u[p + 1]), r \in HostFieldStates, r # st, r \notin Zone,
         Spans(gl), Opened(fl, gl, HostFieldOf[r], p) \/ r \in AddressStates \cup {"s_http_host"},
         r \in AddressStates \cup {"s_http_host"} =>
           /\ DOMAIN gl = DOMAIN fl /\ gl["UF_HOST"].off = p /\ gl["UF_HOST"].len = fl["UF_HOST"].len + 1
           /\ \A g \in DOMAIN fl \ {"UF_HOST"} : gl[g] = fl[g]
  PROVE  HostWritten(fl, gl) /\ Split(gl, u, r, p + 1)
<1> DEFINE ch == u[p + 1]
<1>1. \A g \in DOMAIN fl : fl[g].off \in Nat /\ fl[g].len \in Nat /\ Stop(fl, g) \in Nat
  BY SpansAre
<1>2. r # "s_http_host_dead"
  BY DEF HostFieldStates, AddressStates
<1>3. /\ r = "s_http_userinfo" => st \in {"s_http_userinfo_start", "s_http_userinfo"}
      /\ r = "s_http_host" => st \in {"s_http_host_start", "s_http_host"}
      /\ r \in AddressStates => st \in AddressStates \cup {"s_http_host_v6_start"}
      /\ r \in AddressStates /\ st \in AddressStates => r = st \/ r \in Zone
      /\ r = "s_http_host_port" => st \in {"s_http_host_port_start", "s_http_host_port"} /\ ch = "1"
  BY <1>2, PriorHostStates
<1> HIDE DEF ch
<1>4. /\ r = "s_http_userinfo" => st = "s_http_userinfo_start"
      /\ r = "s_http_host" => st = "s_http_host_start"
      /\ r \in AddressStates => st = "s_http_host_v6_start"
      /\ r = "s_http_host_port" => st = "s_http_host_port_start" /\ ch = "1"
  BY <1>3
<1>5. CASE r = "s_http_userinfo"
  <2>1. Opened(fl, gl, "UF_USERINFO", p)
    BY <1>5, HostFieldsOfStates DEF AddressStates
  <2>2. HostWritten(fl, gl)
    BY <2>1 DEF HostWritten, Opened
  <2>3. Begin(gl) = Begin(fl)
    BY <2>2, FrameKept
  <2>4. p = Begin(fl) /\ "UF_USERINFO" \notin DOMAIN fl /\ fl["UF_HOST"].len = 0 /\ "UF_PORT" \notin DOMAIN fl
    BY <1>4, <1>5 DEF Split, OpeningStates
  <2>5. /\ gl["UF_USERINFO"].off = Begin(gl) /\ gl["UF_USERINFO"].len > 0 /\ Stop(gl, "UF_USERINFO") = p + 1
        /\ gl["UF_HOST"].len = 0 /\ "UF_USERINFO" \in DOMAIN gl /\ "UF_PORT" \notin DOMAIN gl
    BY <1>1, <2>1, <2>3, <2>4 DEF Opened, Stop
  <2>6. QED
    BY <1>5, <2>2, <2>5 DEF Split, AddressStates
<1>6. CASE r \in AddressStates \cup {"s_http_host"}
  <2>1. /\ DOMAIN gl = DOMAIN fl /\ gl["UF_HOST"].off = p /\ gl["UF_HOST"].len = fl["UF_HOST"].len + 1
        /\ \A g \in DOMAIN fl \ {"UF_HOST"} : gl[g] = fl[g]
    BY <1>6
  <2>2. HostWritten(fl, gl)
    BY <2>1 DEF HostWritten
  <2>3. Begin(gl) = Begin(fl)
    BY <2>2, FrameKept
  <2>4. \A q : OpensAt(fl, u, q) => OpensAt(gl, u, q)
    BY <2>1, <2>3 DEF OpensAt, Stop
  <2>5. st \in OpeningStates
    BY <1>4, <1>6 DEF OpeningStates
  <2>6. gl["UF_HOST"].len = 1 /\ Stop(gl, "UF_HOST") = p + 1 /\ "UF_PORT" \notin DOMAIN gl
    BY <2>1, <2>5 DEF Split, OpeningStates, Stop
  <2>7. CASE r = "s_http_host"
    <3>1. OpensAt(gl, u, p)
      BY <1>4, <2>4, <2>7 DEF Split
    <3>2. NameTo(gl, u, p + 1)
      BY <2>1, <2>6, <3>1 DEF NameTo
    <3>3. QED
      BY <2>2, <2>6, <2>7, <3>2 DEF Split, AddressStates, OpeningStates
  <2>8. CASE r \in AddressStates
    <3>1. p > 0 /\ OpensAt(gl, u, p - 1) /\ One(u, p - 1, p, "[")
      BY <1>4, <2>4, <2>8 DEF Split
    <3>2. AddressTo(gl, u, p + 1)
      BY <2>1, <2>6, <3>1 DEF AddressTo
    <3>3. QED
      BY <2>2, <2>6, <2>8, <3>2 DEF Split, AddressStates, OpeningStates
  <2>9. QED
    BY <1>6, <2>7, <2>8
<1>7. CASE r = "s_http_host_port"
  <2>1. Opened(fl, gl, "UF_PORT", p)
    BY <1>7, HostFieldsOfStates DEF AddressStates
  <2>2. HostWritten(fl, gl)
    BY <2>1 DEF HostWritten, Opened
  <2>3. Begin(gl) = Begin(fl)
    BY <2>2, FrameKept
  <2>4. st = "s_http_host_port_start" /\ ch = "1"
    BY <1>4, <1>7
  <2>5. /\ p > 0 /\ HostTo(fl, u, p - 1) /\ One(u, p - 1, p, ":") /\ "UF_PORT" \notin DOMAIN fl
    BY <2>4 DEF Split
  <2>6. /\ "UF_HOST" \in DOMAIN gl /\ gl["UF_HOST"] = fl["UF_HOST"] /\ Stop(gl, "UF_HOST") = Stop(fl, "UF_HOST")
        /\ "UF_USERINFO" \in DOMAIN gl <=> "UF_USERINFO" \in DOMAIN fl
        /\ "UF_USERINFO" \in DOMAIN fl => /\ gl["UF_USERINFO"] = fl["UF_USERINFO"]
                                        /\ Stop(gl, "UF_USERINFO") = Stop(fl, "UF_USERINFO")
    BY <2>1 DEF Opened, Stop
  <2>7. \A q : OpensAt(fl, u, q) => OpensAt(gl, u, q)
    BY <2>3, <2>6 DEF OpensAt
  <2>8. \A q : HostTo(fl, u, q) => HostTo(gl, u, q)
    BY <2>6, <2>7 DEF HostTo, NameTo, AddressTo
  <2>9. gl["UF_PORT"].off = p /\ gl["UF_PORT"].len = 1 /\ "UF_PORT" \in DOMAIN gl /\ Stop(gl, "UF_PORT") = p + 1
    BY <2>1 DEF Opened, Stop
  <2>10. \A i \in p + 1 .. p + 1 : u[i] = "1"
    BY <2>4 DEF ch
  <2>11. PortTo(gl, u, p + 1)
    BY <2>5, <2>8, <2>9, <2>10 DEF PortTo
  <2>12. QED
    BY <1>7, <2>2, <2>9, <2>11 DEF Split, AddressStates, OpeningStates
<1>8. QED
  BY <1>5, <1>6, <1>7 DEF HostFieldStates

-----------------------------------------------------------------------------
(* The invariant *)

\* A character more in a field, as the code writes it.
LEMMA Lengthened ==
  ASSUME NEW fl, Spans(fl), NEW f \in DOMAIN fl, NEW gl, gl = [fl EXCEPT ![f].len = @ + 1]
  PROVE  Grown(fl, gl, f) /\ Spans(gl)
<1>1. /\ f \in Names /\ fl[f] = [off |-> fl[f].off, len |-> fl[f].len]
      /\ fl[f].off \in Nat /\ fl[f].len \in Nat
  BY SpansAre
<1>2. /\ DOMAIN gl = DOMAIN fl /\ gl = [g \in DOMAIN gl |-> gl[g]]
      /\ gl[f] = [fl[f] EXCEPT !.len = @ + 1]
      /\ \A g \in DOMAIN fl \ {f} : gl[g] = fl[g]
  OBVIOUS
<1>3. gl[f] = [off |-> fl[f].off, len |-> fl[f].len + 1]
  BY <1>1, <1>2
<1>4. gl[f].off = fl[f].off /\ gl[f].len = fl[f].len + 1 /\ gl[f] = [off |-> gl[f].off, len |-> gl[f].len]
  BY <1>3
<1>5. Grown(fl, gl, f)
  BY <1>2, <1>4 DEF Grown
<1>6. QED
  BY <1>1, <1>2, <1>4, <1>5, GrownSpans

\* The spans gl are fl with a span for f of len characters after off.
Placed(fl, gl, f, off, len) ==
  /\ DOMAIN gl = DOMAIN fl \cup {f} /\ gl[f].off = off /\ gl[f].len = len
  /\ \A g \in DOMAIN fl \ {f} : gl[g] = fl[g]

\* A span that is written over, or is new.
LEMMA WithFieldIs ==
  ASSUME NEW fl, Spans(fl), NEW f \in Names, NEW off \in Nat, NEW len \in Nat
  PROVE  Spans(WithField(fl, f, off, len)) /\ Placed(fl, WithField(fl, f, off, len), f, off, len)
<1> DEFINE gl == WithField(fl, f, off, len)
<1>1. /\ DOMAIN gl = DOMAIN fl \cup {f} /\ gl = [g \in DOMAIN gl |-> gl[g]]
      /\ gl[f] = [off |-> off, len |-> len]
      /\ \A g \in DOMAIN fl \ {f} : gl[g] = fl[g]
  BY DEF WithField
<1>2. \A g \in DOMAIN fl : g \in Names /\ fl[g] \in [off : Nat, len : Nat]
  BY DEF Spans
<1>3. \A g \in DOMAIN gl : g \in Names /\ gl[g] \in [off : Nat, len : Nat]
  BY <1>1, <1>2
<1>4. Spans(gl)
  BY <1>1, <1>3 DEF Spans
<1>5. QED
  BY <1>1, <1>4 DEF Placed

\* A field of one character.
LEMMA WithFieldOpens ==
  ASSUME NEW fl, Spans(fl), NEW f \in Names, NEW off \in Nat, NEW gl, gl = WithField(fl, f, off, 1)
  PROVE  Opened(fl, gl, f, off) /\ Spans(gl)
<1>1. 1 \in Nat
  OBVIOUS
<1>2. Spans(WithField(fl, f, off, 1)) /\ Placed(fl, WithField(fl, f, off, 1), f, off, 1)
  BY <1>1, WithFieldIs, Zenon
<1>3. QED
  BY <1>2 DEF Opened, Placed

\* No digit follows the host field: the path does, or a query, a fragment or nothing.
LEMMA NoDigitAfterHost ==
  ASSUME NEW fl, NEW u, NEW st \in UrlStates, NEW e \in Nat, Spans(fl), Len(u) \in Nat, "UF_HOST" \in DOMAIN fl,
         Frame(fl, u, st, e), Trailing(fl, u, st, e), e < Len(u)
  PROVE  u[e + 1] # "1"
<1>1. \A f \in DOMAIN fl : fl[f].off \in Nat /\ fl[f].len \in Nat /\ Stop(fl, f) \in Nat
  BY SpansAre
<1>2. AfterHost(fl, e) = e
  BY DEF AfterHost
<1>3. CASE "UF_PATH" \in DOMAIN fl
  BY <1>2, <1>3 DEF Frame, One
<1>4. CASE "UF_PATH" \notin DOMAIN fl
  <2>1. AfterPath(fl, e) = e
    BY <1>2, <1>4 DEF AfterPath
  <2>2. CASE "UF_QUERY" \in DOMAIN fl
    BY <2>1, <2>2 DEF Frame, One
  <2>3. CASE "UF_QUERY" \notin DOMAIN fl
    <3>1. \A j \in Nat : Marks(u, e, j) => u[e + 1] \in {"#", "?"}
      <4>1. \A j \in Nat : Sharps(u, e, j) => u[e + 1] = "#"
        BY DEF Sharps
      <4>2. One(u, e, e + 1, "?") => u[e + 1] = "?"
        BY DEF One
      <4>3. QED
        BY <4>1, <4>2 DEF Marks
    <3>2. CASE "UF_FRAGMENT" \in DOMAIN fl
      BY <1>1, <2>1, <2>3, <3>1, <3>2 DEF Frame
    <3>3. CASE "UF_FRAGMENT" \notin DOMAIN fl
      <4>1. st \in HostFields \cup {"s_req_query_string_start", "s_req_fragment_start"}
        BY <1>4, <2>3, <3>3 DEF Trailing, UrlStates, HostFields
      <4>2. QED
        BY <2>1, <2>3, <3>1, <4>1 DEF Trailing, One
    <3>4. QED
      BY <3>2, <3>3
  <2>4. QED
    BY <2>2, <2>3
<1>5. QED
  BY <1>3, <1>4

\* strtoul reads the port field, all of it and no further.
LEMMA PortRead ==
  ASSUME NEW e \in Nat, Spans(field), url \in Seq(Chars), "UF_PORT" \in DOMAIN field, PortTo(field, url, e),
         e <= Len(url), e < Len(url) => url[e + 1] # "1"
  PROVE  strtoul(field["UF_PORT"].off) = Spelled(field, url)
<1> DEFINE off == field["UF_PORT"].off
           Fits(d) == /\ \A i \in off + 1 .. d : url[i] = "1"
                      /\ d = Len(url) \/ url[d + 1] # "1"
<1>1. Len(url) \in Nat /\ off \in Nat /\ field["UF_PORT"].len \in Nat
  BY SpansAre
<1>2. Stop(field, "UF_PORT") = e /\ off < e /\ \A i \in off + 1 .. e : url[i] = "1"
  BY <1>1 DEF PortTo, Stop
<1>3. DigitsEnd(off) = CHOOSE d \in off .. Len(url) : Fits(d)
  BY DEF DigitsEnd
<1>4. Spelled(field, url) = Decimal(SubSeq(url, off + 1, e))
  BY <1>2 DEF Spelled
<1>5. strtoul(off) = Decimal(SubSeq(url, off + 1, DigitsEnd(off)))
  BY DEF strtoul
<1> HIDE DEF off
<1>6. e \in off .. Len(url) /\ Fits(e)
  BY <1>1, <1>2
<1>7. ASSUME NEW d \in off .. Len(url), Fits(d) PROVE d = e
  <2>1. d \in Nat
    BY <1>1
  <2>2. ~(d < e)
    <3>1. SUFFICES ASSUME d < e PROVE FALSE
      OBVIOUS
    <3>2. d + 1 \in off + 1 .. e /\ d # Len(url)
      BY <1>1, <2>1, <3>1
    <3>3. QED
      BY <1>2, <1>7, <3>2
  <2>3. ~(e < d)
    <3>1. SUFFICES ASSUME e < d PROVE FALSE
      OBVIOUS
    <3>2. e + 1 \in off + 1 .. d /\ e < Len(url)
      BY <1>1, <1>2, <2>1, <3>1
    <3>3. QED
      BY <1>7, <3>2
  <2>4. QED
    BY <2>1, <2>2, <2>3
<1> HIDE DEF Fits
<1>8. DigitsEnd(off) = e
  BY <1>3, <1>6, <1>7
<1>9. QED
  BY <1>4, <1>5, <1>8 DEF off

\* The invariant holds before the first character.
LEMMA UrlInit == Init => UrlInv
<1>1. SUFFICES ASSUME Init PROVE UrlInv
  OBVIOUS
<1>2. DOMAIN field = {} /\ Len(url) = 0 /\ result = "reading" /\ current = "UF_MAX" /\ url = <<>>
  BY <1>1 DEF Init
<1>3. Spans(field) /\ url \in Seq(Chars)
  BY <1>1, <1>2 DEF Spans, Init
<1>4. HostEnd = 0
  BY <1>2 DEF HostEnd, HostStop
<1>5. (s = "s_req_server_start" /\ is_connect) \/ s = "s_req_spaces_before_url"
  BY <1>1 DEF Init
<1>6. Frame(field, url, s, 0)
  BY <1>2 DEF Frame
<1>7. Trailing(field, url, s, 0)
  BY <1>2, <1>5 DEF Trailing, Begin, HostFields
<1>8. Reading(field, s, current)
  BY <1>2, <1>5 DEF Reading, HostFields
<1>9. QED
  BY <1>2, <1>3, <1>4, <1>5, <1>6, <1>7, <1>8 DEF UrlInv, UrlStates

\* The invariant, as it stands in each of the loops.
LEMMA InvReading ==
  UrlInv /\ result = "reading" => Loop(field, url, s, current)
<1>1. SUFFICES ASSUME UrlInv, result = "reading" PROVE Loop(field, url, s, current)
  OBVIOUS
<1>2. HostEnd = HostStop(field)
  BY <1>1 DEF HostEnd
<1>3. Len(url) \in Nat
  BY <1>1 DEF UrlInv
<1>4. QED
  BY <1>1, <1>2, <1>3 DEF UrlInv, Loop

\* The next character of the URL.
LEMMA CharStep ==
  ASSUME UrlInv, NEW ch \in Chars, Char(ch)
  PROVE  UrlInv'
<1> DEFINE r == parse_url_char(s, ch)
           f == FieldOf[r]
<1>1. /\ result = "reading" /\ url' = Append(url, ch) /\ s' = r
      /\ result' = IF r = "s_dead" THEN "rejected" ELSE "reading"
      /\ is_connect' = is_connect
      /\ r \notin DOMAIN FieldOf => field' = field /\ current' = current
      /\ r \in DOMAIN FieldOf =>
           /\ current' = f
           /\ f = current => field' = [field EXCEPT ![f].len = @ + 1]
           /\ f # current => field' = WithField(field, f, Len(url), 1)
  BY DEF Char
<1>2. Loop(field, url, s, current) /\ Spans(field) /\ url \in Seq(Chars) /\ Len(url) \in Nat /\ s \in UrlStates
  BY <1>1, InvReading DEF UrlInv
<1>3. url' \in Seq(Chars) /\ Extends(url, url', ch)
  BY <1>1, <1>2, AppendExtends
<1>4. r \in FieldStates => f \in Names
  BY FieldsOfStates DEF FieldStates, HostFields, Names
<1>5. DOMAIN FieldOf = FieldStates /\ "s_dead" \notin FieldStates
  BY FieldsOfStates DEF FieldStates, HostFields
<1>6. current \in DOMAIN field \cup {"UF_MAX"} /\ "UF_MAX" \notin Names
  BY <1>1 DEF UrlInv, Reading, Names
<1>7. Spans(field') /\ DOMAIN field \subseteq DOMAIN field' /\ (r # "s_dead" => Loop(field', url', s', current'))
  <2>1. CASE r \notin FieldStates
    <3>1. field' = field /\ current' = current
      BY <1>1, <1>5, <2>1
    <3>2. r # "s_dead" => Loop(field, url', r, current)
      BY <1>2, <1>3, <2>1, DelimiterRead
    <3>3. QED
      BY <1>1, <1>2, <3>1, <3>2
  <2>2. CASE r \in FieldStates /\ f = current
    <3>1. field' = [field EXCEPT ![f].len = @ + 1] /\ f \in DOMAIN field /\ current' = current
      BY <1>1, <1>4, <1>5, <1>6, <2>2
    <3>2. Grown(field, field', f) /\ Spans(field')
      BY <1>2, <3>1, Lengthened
    <3>3. Loop(field', url', r, current)
      BY <1>2, <1>3, <2>2, <3>2, FieldGoesOn
    <3>4. QED
      BY <1>1, <3>1, <3>2, <3>3 DEF Grown
  <2>3. CASE r \in FieldStates /\ f # current
    <3>1. field' = WithField(field, f, Len(url), 1) /\ current' = f /\ f \in Names
      BY <1>1, <1>4, <1>5, <2>3
    <3>2. Opened(field, field', f, Len(url)) /\ Spans(field')
      BY <1>2, <3>1, WithFieldOpens
    <3>3. Loop(field', url', r, f)
      BY <1>2, <1>3, <2>3, <3>2, FieldOpens
    <3>4. QED
      BY <1>1, <3>1, <3>2, <3>3 DEF Opened
  <2>4. QED
    BY <2>1, <2>2, <2>3
<1>8. CASE r = "s_dead"
  BY <1>1, <1>3, <1>7, <1>8 DEF UrlInv
<1>9. CASE r # "s_dead"
  <2>1. result' = "reading" /\ Loop(field', url', s', current')
    BY <1>1, <1>7, <1>9
  <2>2. HostEnd' = HostStop(field') /\ HostStop(field') \in Nat
    BY <1>7, <2>1, SpansAre DEF HostEnd, HostStop
  <2>3. is_connect' \/ s' = "s_req_spaces_before_url" \/ {"UF_SCHEMA", "UF_PATH"} \cap DOMAIN field' # {}
    <3>1. CASE s = "s_req_spaces_before_url"
      <4>1. r = "s_req_path" \/ r = "s_req_schema"
        BY <1>2, <1>9, <3>1, NextStates
      <4>2. s' = r
        BY <1>1
      <4>3. QED
        BY <2>1, <4>1, <4>2 DEF Loop, Trailing
    <3>2. CASE s # "s_req_spaces_before_url"
      BY <1>1, <1>7, <3>2 DEF UrlInv
    <3>3. QED
      BY <3>1, <3>2
  <2>4. QED
    BY <1>3, <1>7, <2>1, <2>2, <2>3 DEF UrlInv, Loop
<1>10. QED
  BY <1>8, <1>9

\* The checks on the fields, and what they accept.
LEMMA VerdictIs ==
  ASSUME Verdict, Spans(field)
  PROVE  /\ result' \in {"accepted", "rejected"}
         /\ result' = "accepted" =>
              /\ is_connect => DOMAIN field = {"UF_HOST", "UF_PORT"}
              /\ "UF_PORT" \notin DOMAIN field => port' = 0
              /\ "UF_PORT" \in DOMAIN field => port' = strtoul(field["UF_PORT"].off) /\ port' <= MaxPort
<1> DEFINE v == strtoul(field["UF_PORT"].off)
<1> HIDE DEF v
<1>1. IF \/ is_connect /\ DOMAIN field # {"UF_HOST", "UF_PORT"}
         \/ "UF_PORT" \in DOMAIN field /\ ~PortFits(v)
      THEN result' = "rejected" /\ UNCHANGED port
      ELSE result' = "accepted" /\ port' = IF "UF_PORT" \in DOMAIN field THEN v ELSE 0
  BY DEF Verdict, v
<1>2. QED
  BY <1>1 DEF v, PortFits

\* The end of the buffer.
LEMMA EndOfUrlStep ==
  ASSUME UrlInv, EndOfUrl
  PROVE  UrlInv'
<1>1. result = "reading" /\ UNCHANGED <<is_connect, url, s, current, found_at>>
  BY DEF EndOfUrl
<1>2. Loop(field, url, s, current) /\ Spans(field) /\ url \in Seq(Chars) /\ Len(url) \in Nat /\ s \in UrlStates
  BY <1>1, InvReading DEF UrlInv
<1>3. \A g \in DOMAIN field : field[g].off \in Nat /\ field[g].len \in Nat /\ Stop(field, g) \in Nat
  BY <1>2, SpansAre
<1> DEFINE e == HostStop(field)
<1>4. e \in Nat
  BY <1>3 DEF HostStop
<1>5. Frame(field, url, s, e) /\ Trailing(field, url, s, e) /\ Reading(field, s, current)
  BY <1>2 DEF Loop
<1>6. CASE "UF_HOST" \in DOMAIN field
  <2>1. /\ result' = "splitting"
        /\ host' = [st |-> IF found_at THEN "s_http_userinfo_start" ELSE "s_http_host_start",
                    p |-> field["UF_HOST"].off, end |-> field["UF_HOST"].off + field["UF_HOST"].len]
        /\ field' = [field EXCEPT !["UF_HOST"].len = 0]
    BY <1>6 DEF EndOfUrl, StartHost
  <2>2. /\ host'.st \in {"s_http_userinfo_start", "s_http_host_start"}
        /\ host'.p = field["UF_HOST"].off /\ host'.end = e
        /\ host' \in [st : HostStates, p : Nat, end : Nat]
    BY <1>3, <1>6, <2>1 DEF HostStop, Stop, HostStates, OpeningStates
  <2>3. /\ DOMAIN field' = DOMAIN field /\ field' = [g \in DOMAIN field' |-> field'[g]]
        /\ field'["UF_HOST"] = [field["UF_HOST"] EXCEPT !.len = 0]
        /\ \A g \in DOMAIN field \ {"UF_HOST"} : field'[g] = field[g]
    BY <1>6, <2>1
  <2>4. field'["UF_HOST"] = [off |-> field["UF_HOST"].off, len |-> 0]
    <3>1. field["UF_HOST"] = [off |-> field["UF_HOST"].off, len |-> field["UF_HOST"].len]
      BY <1>2, <1>6, SpansAre
    <3>2. QED
      BY <2>3, <3>1
  <2>5. Spans(field')
    <3>1. \A g \in DOMAIN field' : field'[g] \in [off : Nat, len : Nat]
      BY <1>2, <1>3, <1>6, <2>3, <2>4 DEF Spans
    <3>2. QED
      BY <1>2, <2>3, <3>1 DEF Spans
  <2>6. HostWritten(field, field')
    BY <2>3 DEF HostWritten
  <2>7. Frame(field', url, s, e) /\ Trailing(field', url, s, e) /\ Begin(field') = Begin(field)
    BY <1>5, <1>6, <2>6, FrameKept
  <2>8. HostEnd' = e
    BY <1>6, <2>1, <2>2, <2>3 DEF HostEnd
  <2>9. /\ field["UF_HOST"].off = Begin(field) /\ Begin(field) < e /\ Begin(field) \in Nat
        /\ "UF_USERINFO" \notin DOMAIN field /\ "UF_PORT" \notin DOMAIN field
    BY <1>3, <1>5, <1>6 DEF Reading, Frame
  <2>10. Splitting(field', url, host')
    <3>1. Split(field', url, host'.st, host'.p)
      BY <2>2, <2>3, <2>4, <2>7, <2>9 DEF Split, OpensAt, AddressStates
    <3>2. QED
      BY <1>4, <1>6, <2>2, <2>3, <2>7, <2>9, <3>1 DEF Splitting
  <2>11. QED
    BY <1>1, <1>2, <1>4, <2>1, <2>5, <2>7, <2>8, <2>10 DEF UrlInv
<1>7. CASE "UF_HOST" \notin DOMAIN field /\ "UF_SCHEMA" \in DOMAIN field
  <2>1. result' = "rejected" /\ field' = field
    BY <1>7 DEF EndOfUrl
  <2>2. QED
    BY <1>1, <1>2, <2>1 DEF UrlInv
<1>8. CASE "UF_HOST" \notin DOMAIN field /\ "UF_SCHEMA" \notin DOMAIN field
  <2>1. Verdict /\ field' = field /\ host' = host
    BY <1>8 DEF EndOfUrl
  <2>2. CASE result' = "rejected"
    BY <1>1, <1>2, <2>1, <2>2 DEF UrlInv
  <2>3. CASE result' # "rejected"
    <3>1. result' = "accepted" /\ ~is_connect /\ ("UF_PORT" \notin DOMAIN field => port' = 0)
      BY <1>2, <1>8, <2>1, <2>3, VerdictIs
    <3>2. Len(url) > 0 => "UF_PATH" \in DOMAIN field
      BY <1>1, <1>5, <1>8, <3>1 DEF UrlInv, Trailing
    <3>3. "UF_USERINFO" \notin DOMAIN field /\ "UF_PORT" \notin DOMAIN field
      BY <1>5 DEF Reading
    <3>4. Accepted(field, url, e)
      BY <1>8, <3>2, <3>3 DEF Accepted
    <3>5. HostEnd' = e
      BY <1>8, <2>1 DEF HostEnd
    <3>6. QED
      BY <1>1, <1>2, <1>4, <1>5, <2>1, <3>1, <3>3, <3>4, <3>5 DEF UrlInv
  <2>4. QED
    BY <2>2, <2>3
<1>9. QED
  BY <1>6, <1>7, <1>8

\* The next character of the host field.
LEMMA HostCharStep ==
  ASSUME UrlInv, HostChar
  PROVE  UrlInv'
<1> DEFINE p == host.p
           st == host.st
           e == host.end
           r == http_parse_host_char(st, url[p + 1])
           f == HostFieldOf[r]
<1>1. /\ result = "splitting" /\ p < e /\ UNCHANGED <<is_connect, url, s, current, found_at, port>>
      /\ r = "s_http_host_dead" => result' = "rejected" /\ field' = field
      /\ r # "s_http_host_dead" => result' = result /\ host' = [host EXCEPT !.st = r, !.p = @ + 1]
      /\ r # "s_http_host_dead" /\ r \notin DOMAIN HostFieldOf => field' = field
      /\ r # "s_http_host_dead" /\ r \in DOMAIN HostFieldOf => field' = Added(f, r # st /\ r \notin Zone)
  BY DEF HostChar
<1>2. Splitting(field, url, host) /\ Spans(field) /\ url \in Seq(Chars) /\ Len(url) \in Nat /\ s \in UrlStates
  BY <1>1 DEF UrlInv
<1>3. /\ "UF_HOST" \in DOMAIN field /\ st \in HostStates /\ p \in Nat /\ e \in Nat
      /\ host = [st |-> st, p |-> p, end |-> e] /\ Begin(field) <= p /\ Split(field, url, st, p)
  BY <1>2 DEF Splitting
<1>4. Frame(field, url, s, e) /\ Trailing(field, url, s, e) /\ HostEnd = e
  BY <1>1, <1>3 DEF UrlInv, HostEnd
<1>5. \A g \in DOMAIN field : field[g].off \in Nat /\ field[g].len \in Nat /\ Stop(field, g) \in Nat
  BY <1>2, SpansAre
<1>6. Begin(field) \in Nat /\ p + 1 <= Len(url)
  BY <1>1, <1>2, <1>3, <1>4, <1>5 DEF Frame, Begin
<1>7. DOMAIN HostFieldOf = HostFieldStates /\ (r \in HostFieldStates => r # "s_http_host_dead")
  BY HostFieldsOfStates DEF HostFieldStates, AddressStates
<1>8. CASE r = "s_http_host_dead"
  BY <1>1, <1>2, <1>8 DEF UrlInv
<1>9. CASE r # "s_http_host_dead"
  <2>1. r \in HostStates
    BY <1>3, <1>9, PriorHostStates
  <2>2. Spans(field') /\ HostWritten(field, field') /\ Split(field', url, r, p + 1)
    <3>1. CASE r \notin HostFieldStates
      <4>1. field' = field
        BY <1>1, <1>7, <1>9, <3>1
      <4>2. Split(field, url, r, p + 1)
        BY <1>2, <1>3, <1>6, <1>9, <3>1, HostDelimiter
      <4>3. QED
        BY <1>2, <4>1, <4>2 DEF HostWritten
    <3>2. CASE r \in HostFieldStates /\ (r = st \/ r \in Zone)
      <4>1. field' = [field EXCEPT ![f].len = @ + 1]
        BY <1>1, <1>7, <3>2 DEF Added
      <4>2. f \in DOMAIN field
        <5>1. r = st => f \in DOMAIN field
          BY <1>3, <3>2, HostFieldsOfStates DEF Split, AddressStates, HostFieldStates
        <5>2. r \in Zone => f = "UF_HOST"
          BY HostFieldsOfStates DEF Zone, AddressStates
        <5>3. QED
          BY <1>3, <3>2, <5>1, <5>2
      <4>3. Grown(field, field', f) /\ Spans(field')
        BY <1>2, <4>1, <4>2, Lengthened
      <4>4. QED
        <5>1. PICK q : q = r
          OBVIOUS
        <5>2. /\ q = http_parse_host_char(st, url[p + 1]) /\ q \in HostFieldStates /\ (q = st \/ q \in Zone)
              /\ Grown(field, field', HostFieldOf[q])
          BY <3>2, <4>3, <5>1
        <5>3. HostWritten(field, field') /\ Split(field', url, q, p + 1)
          <6>1. /\ st \in HostStates /\ p \in Nat /\ Spans(field) /\ Len(url) \in Nat /\ "UF_HOST" \in DOMAIN field
                /\ Begin(field) \in Nat /\ Split(field, url, st, p) /\ p + 1 <= Len(url)
            BY <1>2, <1>3, <1>6
          <6> HIDE DEF r, f, st, p
          <6>2. QED
            BY <4>3, <5>2, <6>1, HostFieldGoesOn, Zenon
        <5>4. QED
          BY <4>3, <5>1, <5>3
    <3>3. CASE r \in HostFieldStates /\ r # st /\ r \notin Zone
      <4>1. field' = WithField(field, f, p, IF f = "UF_HOST" THEN field[f].len + 1 ELSE 1)
        BY <1>1, <1>7, <3>3 DEF Added
      <4>2. CASE r \in AddressStates \cup {"s_http_host"}
        <5>1. f = "UF_HOST"
          BY <4>2, HostFieldsOfStates
        <5>2. field' = WithField(field, "UF_HOST", p, field["UF_HOST"].len + 1)
          BY <4>1, <5>1
        <5>3. field["UF_HOST"].len + 1 \in Nat /\ "UF_HOST" \in Names
          BY <1>3, <1>5 DEF Names
        <5>4. /\ Spans(field') /\ DOMAIN field' = DOMAIN field \cup {"UF_HOST"}
              /\ field'["UF_HOST"].off = p /\ field'["UF_HOST"].len = field["UF_HOST"].len + 1
              /\ \A g \in DOMAIN field \ {"UF_HOST"} : field'[g] = field[g]
          <6> DEFINE n == field["UF_HOST"].len + 1
          <6>1. Spans(field) /\ p \in Nat /\ n \in Nat /\ "UF_HOST" \in Names
            BY <1>2, <1>3, <5>3
          <6> HIDE DEF n, p
          <6>2. /\ Spans(WithField(field, "UF_HOST", p, n))
                /\ Placed(field, WithField(field, "UF_HOST", p, n), "UF_HOST", p, n)
            BY <6>1, WithFieldIs, Zenon
          <6>3. field' = WithField(field, "UF_HOST", p, n)
            BY <5>2 DEF n
          <6>4. QED
            BY <6>2, <6>3 DEF n, Placed
        <5>5. DOMAIN field' = DOMAIN field
          BY <1>3, <5>4
        <5>6. QED
          BY <1>2, <1>3, <1>6, <3>3, <4>2, <5>4, <5>5, HostFieldOpens
      <4>3. CASE r \notin AddressStates \cup {"s_http_host"}
        <5>1. f \in {"UF_USERINFO", "UF_PORT"}
          BY <3>3, <4>3, HostFieldsOfStates DEF HostFieldStates
        <5>2. field' = WithField(field, f, p, 1) /\ f \in Names
          BY <4>1, <5>1 DEF Names
        <5>3. Opened(field, field', f, p) /\ Spans(field')
          BY <1>2, <1>3, <5>2, WithFieldOpens
        <5>4. QED
          BY <1>2, <1>3, <1>6, <3>3, <4>3, <5>3, HostFieldOpens
      <4>4. QED
        BY <4>2, <4>3
    <3>4. QED
      BY <3>1, <3>2, <3>3
  <2>3. host' = [st |-> r, p |-> p + 1, end |-> e] /\ result' = "splitting"
    BY <1>1, <1>3, <1>9
  <2>4. "UF_HOST" \in DOMAIN field'
    BY <1>3, <2>2 DEF HostWritten
  <2>5. Frame(field', url, s, e) /\ Trailing(field', url, s, e) /\ Begin(field') = Begin(field)
    BY <1>3, <1>4, <2>2, FrameKept
  <2>6. host'.st = r /\ host'.p = p + 1 /\ host'.end = e
    BY <2>3
  <2>7. HostEnd' = e
    BY <2>3, <2>4, <2>6 DEF HostEnd
  <2>8. Splitting(field', url, host')
    <3>1. host' \in [st : HostStates, p : Nat, end : Nat]
      BY <1>3, <2>1, <2>3
    <3>2. Begin(field') <= p + 1 /\ p + 1 <= e
      BY <1>1, <1>3, <1>6, <2>5
    <3>3. QED
      BY <2>2, <2>4, <2>6, <3>1, <3>2 DEF Splitting
  <2>9. QED
    BY <1>1, <1>2, <1>3, <2>2, <2>3, <2>5, <2>7, <2>8 DEF UrlInv
<1>10. QED
  BY <1>8, <1>9

\* The end of the host field.
LEMMA EndOfHostStep ==
  ASSUME UrlInv, EndOfHost
  PROVE  UrlInv'
<1> DEFINE e == host.end
<1>1. /\ result = "splitting" /\ host.p = e
      /\ UNCHANGED <<is_connect, url, s, field, current, found_at, host>>
  BY DEF EndOfHost
<1>2. /\ Splitting(field, url, host) /\ Spans(field) /\ url \in Seq(Chars) /\ Len(url) \in Nat /\ s \in UrlStates
      /\ "UF_HOST" \in DOMAIN field /\ e \in Nat
  BY <1>1 DEF UrlInv, Splitting
<1>3. Frame(field, url, s, e) /\ Trailing(field, url, s, e) /\ HostEnd = e /\ HostEnd' = e
  <2>1. HostEnd = e
    BY <1>1, <1>2 DEF HostEnd
  <2>2. result' # "reading"
    BY <1>2, VerdictIs DEF EndOfHost
  <2>3. HostEnd' = e
    BY <1>1, <1>2, <2>2 DEF HostEnd
  <2>4. QED
    BY <1>1, <2>1, <2>3 DEF UrlInv
<1>4. CASE host.st \in HostEnds /\ result' # "rejected"
  <2>1. Verdict
    BY <1>4 DEF EndOfHost
  <2>2. /\ result' = "accepted"
        /\ "UF_PORT" \notin DOMAIN field => port' = 0
        /\ "UF_PORT" \in DOMAIN field => port' = strtoul(field["UF_PORT"].off) /\ port' <= MaxPort
    BY <1>2, <1>4, <2>1, VerdictIs
  <2>3. Split(field, url, host.st, e)
    BY <1>1, <1>2 DEF Splitting
  <2>4. /\ "UF_PORT" \in DOMAIN field => PortTo(field, url, e)
        /\ "UF_PORT" \notin DOMAIN field => HostTo(field, url, e)
    BY <1>4, <2>3 DEF Split, HostEnds, HostTo
  <2>5. Accepted(field, url, e)
    BY <1>2, <2>4 DEF Accepted
  <2>6. e <= Len(url) /\ (e < Len(url) => url[e + 1] # "1")
    BY <1>2, <1>3, NoDigitAfterHost DEF Frame
  <2>7. "UF_PORT" \in DOMAIN field => strtoul(field["UF_PORT"].off) = Spelled(field, url)
    BY <1>2, <2>4, <2>6, PortRead
  <2>8. QED
    BY <1>1, <1>2, <1>3, <2>2, <2>5, <2>7 DEF UrlInv
<1>5. CASE ~(host.st \in HostEnds /\ result' # "rejected")
  <2>1. result' = "rejected"
    BY <1>5 DEF EndOfHost
  <2>2. QED
    BY <1>1, <1>2, <2>1 DEF UrlInv
<1>6. QED
  BY <1>4, <1>5

\* What the loops have done with the characters so far, in every state.
THEOREM SplitsInPlace == Spec => []UrlInv
<1>1. UrlInv /\ [Next]_vars => UrlInv'
  <2>1. SUFFICES ASSUME UrlInv, [Next]_vars PROVE UrlInv'
    OBVIOUS
  <2>2. CASE \E ch \in Chars : Char(ch)
    BY <2>1, <2>2, CharStep
  <2>3. CASE EndOfUrl
    BY <2>1, <2>3, EndOfUrlStep
  <2>4. CASE HostChar
    BY <2>1, <2>4, HostCharStep
  <2>5. CASE EndOfHost
    BY <2>1, <2>5, EndOfHostStep
  <2>6. CASE UNCHANGED vars
    BY <2>1, <2>6 DEF vars, UrlInv, HostEnd
  <2>7. QED
    BY <2>1, <2>2, <2>3, <2>4, <2>5, <2>6 DEF Next
<1>2. QED
  BY UrlInit, <1>1, PTL DEF Spec

-----------------------------------------------------------------------------
(* The properties *)

\* The port of an accepted URL is the number its port field spells, digits only, and fits
\* in 16 bits: strtoul, which knows nothing of the field's length, stops where it ends.
THEOREM PortIsTheField == Spec => []PortIsField
<1>1. UrlInv => PortIsField
  <2>1. SUFFICES ASSUME UrlInv, result = "accepted", "UF_PORT" \in DOMAIN field
                 PROVE  /\ Text("UF_PORT") # <<>>
                        /\ \A i \in DOMAIN Text("UF_PORT") : Text("UF_PORT")[i] = "1"
                        /\ port = Decimal(Text("UF_PORT")) /\ port <= MaxPort
    BY DEF PortIsField, UrlInv
  <2> DEFINE off == field["UF_PORT"].off
             end == Stop(field, "UF_PORT")
  <2>2. /\ Text("UF_PORT") = SubSeq(url, off + 1, end)
        /\ Spelled(field, url) = Decimal(SubSeq(url, off + 1, end))
    BY DEF Text, End, Stop, Spelled
  <2>3. /\ url \in Seq(Chars) /\ Len(url) \in Nat /\ off \in Nat /\ field["UF_PORT"].len \in Nat
        /\ end = off + field["UF_PORT"].len
    BY <2>1, SpansAre DEF UrlInv, Stop
  <2>4. "UF_HOST" \in DOMAIN field /\ PortTo(field, url, HostEnd) /\ HostEnd <= Len(url)
    BY <2>1 DEF UrlInv, Accepted, Frame
  <2>5. off < end /\ end <= Len(url) /\ \A i \in off + 1 .. end : url[i] = "1"
    BY <2>3, <2>4 DEF PortTo
  <2> HIDE DEF off, end
  <2>6. /\ off + 1 \in Int /\ end \in Int /\ \A i \in off + 1 .. end : url[i] \in Chars
    BY <2>3, <2>5
  <2> DEFINE w == SubSeq(url, off + 1, end)
  <2>7. /\ w \in Seq(Chars) /\ Len(w) = (IF off + 1 <= end THEN end - (off + 1) + 1 ELSE 0)
        /\ \A i \in 1 .. end - (off + 1) + 1 : w[i] = url[off + 1 + i - 1]
    BY <2>6, SubSeqProperties
  <2> HIDE DEF w
  <2>8. Len(w) = end - off /\ DOMAIN w = 1 .. end - off
    BY <2>3, <2>5, <2>7
  <2>9. w # <<>> /\ \A i \in DOMAIN w : w[i] = "1"
    <3>1. Len(w) # 0
      BY <2>3, <2>5, <2>8
    <3>2. ASSUME NEW i \in 1 .. end - off PROVE w[i] = "1"
      <4>1. i \in 1 .. end - (off + 1) + 1 /\ off + 1 + i - 1 \in off + 1 .. end
        BY <2>3, <2>5
      <4>2. QED
        BY <2>5, <2>7, <4>1
    <3>3. QED
      BY <2>8, <3>1, <3>2
  <2>10. port = Spelled(field, url) /\ port <= MaxPort
    BY <2>1 DEF UrlInv
  <2>11. QED
    BY <2>2, <2>9, <2>10 DEF w
<1>2. QED
  BY SplitsInPlace, <1>1, PTL

\* The ranks of the fields.
LEMMA Ranks ==
  /\ Rank["UF_SCHEMA"] = 1 /\ Rank["UF_USERINFO"] = 2 /\ Rank["UF_HOST"] = 3 /\ Rank["UF_PORT"] = 4
  /\ Rank["UF_PATH"] = 5 /\ Rank["UF_QUERY"] = 6 /\ Rank["UF_FRAGMENT"] = 7
BY DEF Rank

\* What lies between, in the words of the properties and in those of the invariant.
LEMMA ReadsAre ==
  ASSUME NEW i \in Nat, NEW j, url \in Seq(Chars)
  PROVE  /\ \A c : One(url, i, j, c) => Reads(i, j, <<c>>)
         /\ Sharps(url, i, j) => Hashes(i, j)
         /\ Marks(url, i, j) => Hashes(i, j) \/ (Reads(i, i + 1, <<"?">>) /\ Hashes(i + 1, j))
<1>1. \A c, k : One(url, i, k, c) => Reads(i, k, <<c>>)
  <2>1. SUFFICES ASSUME NEW c, NEW k, One(url, i, k, c) PROVE Reads(i, k, <<c>>)
    OBVIOUS
  <2>2. k = i + 1 /\ k <= Len(url) /\ url[k] = c
    BY <2>1 DEF One
  <2>3. Len(<<c>>) = 1 /\ DOMAIN <<c>> = 1 .. 1 /\ <<c>>[1] = c
    OBVIOUS
  <2>4. \A n \in DOMAIN <<c>> : url[i + n] = <<c>>[n]
    BY <2>2, <2>3
  <2>5. QED
    BY <2>2, <2>3, <2>4 DEF Reads
<1>2. \A k : Sharps(url, k, j) => Hashes(k, j)
  BY DEF Sharps, Hashes
<1>3. QED
  BY <1>1, <1>2 DEF Marks

\* A host that http_parse_host has read up to q: its brackets are not in its field.
LEMMA HostEdges ==
  ASSUME Spans(field), url \in Seq(Chars), "UF_HOST" \in DOMAIN field, NEW q, HostTo(field, url, q),
         "UF_SCHEMA" \in DOMAIN field => Begin(field) <= Len(url) /\ url[Begin(field)] = "/"
  PROVE  /\ field["UF_HOST"].len > 0 /\ Right("UF_HOST") = q /\ Left("UF_HOST") \in Nat
         /\ OpensAt(field, url, Left("UF_HOST")) /\ Right("UF_HOST") \in Nat
         /\ Bracketed("UF_HOST") => Reads(End("UF_HOST"), Right("UF_HOST"), <<"]">>)
<1>1. /\ field["UF_HOST"].off \in Nat /\ field["UF_HOST"].len \in Nat /\ Stop(field, "UF_HOST") \in Nat
      /\ End("UF_HOST") = Stop(field, "UF_HOST") /\ Begin(field) \in Nat
  BY SpansAre DEF End, Stop, Begin
<1>2. CASE NameTo(field, url, q)
  <2>1. ~Bracketed("UF_HOST")
    <3>1. OpensAt(field, url, field["UF_HOST"].off)
      BY <1>2 DEF NameTo
    <3>2. CASE "UF_USERINFO" \in DOMAIN field
      BY <3>1, <3>2 DEF OpensAt, One, Bracketed
    <3>3. CASE "UF_USERINFO" \notin DOMAIN field
      <4>1. field["UF_HOST"].off = Begin(field) \/ url[field["UF_HOST"].off] = "@"
        BY <3>1, <3>3 DEF OpensAt, One
      <4>2. Begin(field) = 0 \/ url[Begin(field)] = "/"
        BY DEF Begin
      <4>3. QED
        BY <4>1, <4>2 DEF Bracketed
    <3>4. QED
      BY <3>2, <3>3
  <2>2. QED
    BY <1>1, <1>2, <2>1 DEF NameTo, Right, Left
<1>3. CASE AddressTo(field, url, Stop(field, "UF_HOST")) /\ One(url, Stop(field, "UF_HOST"), q, "]")
  <2>1. Bracketed("UF_HOST")
    BY <1>3 DEF AddressTo, One, Bracketed
  <2>2. q = Stop(field, "UF_HOST") + 1
    BY <1>3 DEF One
  <2>3. Left("UF_HOST") = field["UF_HOST"].off - 1 /\ Right("UF_HOST") = q
    BY <1>1, <2>1, <2>2 DEF Left, Right
  <2>4. Reads(End("UF_HOST"), q, <<"]">>)
    BY <1>1, <1>3, ReadsAre
  <2>5. QED
    BY <1>1, <1>3, <2>2, <2>3, <2>4 DEF AddressTo
<1>4. QED
  BY <1>2, <1>3 DEF HostTo

\* The fields a field may be a neighbour of.
LEMMA NeighboursAre ==
  ASSUME Spans(field), NEW f \in DOMAIN field, NEW g \in DOMAIN field, Neighbours(f, g)
  PROVE  /\ f \in Names /\ g \in Names
         /\ g # "UF_SCHEMA" /\ f # "UF_FRAGMENT"
         /\ g = "UF_USERINFO" => f = "UF_SCHEMA"
         /\ g = "UF_HOST" => f = "UF_USERINFO" \/ (f = "UF_SCHEMA" /\ "UF_USERINFO" \notin DOMAIN field)
         /\ g = "UF_PORT" => f = "UF_HOST" \/ "UF_HOST" \notin DOMAIN field
         /\ g \in {"UF_PATH", "UF_QUERY", "UF_FRAGMENT"} =>
              \/ f \in {"UF_SCHEMA", "UF_USERINFO"} /\ "UF_HOST" \notin DOMAIN field
              \/ f = "UF_HOST" /\ "UF_PORT" \notin DOMAIN field
              \/ f \in {"UF_PORT", "UF_PATH", "UF_QUERY"}
         /\ f \in {"UF_SCHEMA", "UF_USERINFO", "UF_HOST", "UF_PORT"} /\ g \in {"UF_QUERY", "UF_FRAGMENT"} =>
              "UF_PATH" \notin DOMAIN field
         /\ g = "UF_FRAGMENT" => f = "UF_QUERY" \/ "UF_QUERY" \notin DOMAIN field
         /\ g = "UF_PATH" => f # "UF_QUERY"
         /\ g = "UF_QUERY" => f # "UF_QUERY"
         /\ g = "UF_PATH" => f # "UF_PATH"
<1>1. f \in Names /\ g \in Names
  BY DEF Spans
<1>2. /\ Rank[f] < Rank[g]
      /\ \A h \in DOMAIN field : ~(Rank[f] < Rank[h] /\ Rank[h] < Rank[g])
  BY DEF Neighbours
<1>3. QED
  BY <1>1, <1>2, Ranks DEF Names

\* Where the fields of an accepted URL lie, one after another.
LEMMA WhereFieldsLie ==
  ASSUME UrlInv, result = "accepted", url # <<>>
  PROVE  /\ Spans(field) /\ url \in Seq(Chars)
         /\ \A f \in DOMAIN field : field[f].len > 0 /\ Left(f) \in Nat /\ Right(f) \in Nat
         /\ \A f \in DOMAIN field : Bracketed(f) => Reads(End(f), Right(f), <<"]">>)
         /\ "UF_SCHEMA" \in DOMAIN field =>
              /\ Left("UF_SCHEMA") = 0 /\ "UF_HOST" \in DOMAIN field
              /\ Reads(Right("UF_SCHEMA"), Begin(field), <<":", "/", "/">>)
         /\ "UF_USERINFO" \in DOMAIN field =>
              /\ Left("UF_USERINFO") = Begin(field) /\ "UF_HOST" \in DOMAIN field
              /\ One(url, Right("UF_USERINFO"), Left("UF_HOST"), "@")
         /\ "UF_HOST" \in DOMAIN field /\ "UF_USERINFO" \notin DOMAIN field =>
              Left("UF_HOST") = Begin(field) \/ One(url, Begin(field), Left("UF_HOST"), "@")
         /\ "UF_PORT" \in DOMAIN field =>
              /\ "UF_HOST" \in DOMAIN field /\ One(url, Right("UF_HOST"), Left("UF_PORT"), ":")
              /\ Right("UF_PORT") = AfterHost(field, HostEnd)
         /\ "UF_HOST" \in DOMAIN field /\ "UF_PORT" \notin DOMAIN field =>
              Right("UF_HOST") = AfterHost(field, HostEnd)
         /\ "UF_PATH" \in DOMAIN field =>
              Left("UF_PATH") = AfterHost(field, HostEnd) /\ Right("UF_PATH") = AfterPath(field, HostEnd)
         /\ "UF_PATH" \notin DOMAIN field =>
              "UF_HOST" \in DOMAIN field /\ AfterHost(field, HostEnd) = AfterPath(field, HostEnd)
         /\ "UF_HOST" \notin DOMAIN field =>
              AfterHost(field, HostEnd) = 0 /\ {"UF_USERINFO", "UF_PORT"} \cap DOMAIN field = {}
         /\ "UF_QUERY" \in DOMAIN field => One(url, AfterPath(field, HostEnd), Left("UF_QUERY"), "?")
         /\ "UF_FRAGMENT" \in DOMAIN field =>
              /\ "UF_QUERY" \in DOMAIN field => Sharps(url, Right("UF_QUERY"), Left("UF_FRAGMENT"))
              /\ "UF_QUERY" \notin DOMAIN field => Marks(url, AfterPath(field, HostEnd), Left("UF_FRAGMENT"))
         /\ "UF_FRAGMENT" \in DOMAIN field => Right("UF_FRAGMENT") = Len(url)
         /\ "UF_FRAGMENT" \notin DOMAIN field /\ "UF_QUERY" \in DOMAIN field =>
              Right("UF_QUERY") = Len(url) \/ Sharps(url, Right("UF_QUERY"), Len(url))
         /\ "UF_FRAGMENT" \notin DOMAIN field /\ "UF_QUERY" \notin DOMAIN field =>
              \/ AfterPath(field, HostEnd) = Len(url)
              \/ One(url, AfterPath(field, HostEnd), Len(url), "?")
              \/ Marks(url, AfterPath(field, HostEnd), Len(url))
<1> DEFINE e == HostEnd
<1>1. /\ Spans(field) /\ url \in Seq(Chars) /\ s \in UrlStates /\ e \in Nat /\ Frame(field, url, s, e)
      /\ Trailing(field, url, s, e) /\ Accepted(field, url, e)
  BY DEF UrlInv
<1>2. Len(url) \in Nat /\ Len(url) > 0
  BY <1>1
<1>3. \A f \in DOMAIN field : field[f].off \in Nat /\ field[f].len \in Nat /\ Stop(field, f) \in Nat
  BY <1>1, SpansAre
<1> HIDE DEF e
<1>4. ASSUME NEW f \in DOMAIN field, f # "UF_HOST"
      PROVE  /\ ~Bracketed(f) /\ Left(f) = field[f].off /\ Right(f) = Stop(field, f)
             /\ Left(f) \in Nat /\ Right(f) \in Nat
  BY <1>3, <1>4 DEF Bracketed, Left, Right, End, Stop
<1>5. ASSUME "UF_SCHEMA" \in DOMAIN field
      PROVE  /\ "UF_HOST" \in DOMAIN field /\ field["UF_SCHEMA"].off = 0 /\ field["UF_SCHEMA"].len > 0
             /\ Begin(field) = Stop(field, "UF_SCHEMA") + 3 /\ Begin(field) <= Len(url)
             /\ url[Begin(field) - 2] = ":" /\ url[Begin(field) - 1] = "/" /\ url[Begin(field)] = "/"
  <2>1. "UF_HOST" \in DOMAIN field
    BY <1>1, <1>5 DEF Accepted
  <2>2. s \notin SchemaStates
    BY <1>1, <2>1 DEF SchemaStates, Trailing
  <2>3. QED
    BY <1>1, <1>5, <2>1, <2>2 DEF Frame, Begin
<1>6. "UF_SCHEMA" \in DOMAIN field => Reads(Stop(field, "UF_SCHEMA"), Begin(field), <<":", "/", "/">>)
  <2>1. SUFFICES ASSUME "UF_SCHEMA" \in DOMAIN field
                 PROVE  Reads(Stop(field, "UF_SCHEMA"), Begin(field), <<":", "/", "/">>)
    OBVIOUS
  <2> DEFINE i == Stop(field, "UF_SCHEMA")
             w == <<":", "/", "/">>
  <2>2. Len(w) = 3 /\ DOMAIN w = 1 .. 3 /\ w[1] = ":" /\ w[2] = "/" /\ w[3] = "/"
    OBVIOUS
  <2>3. i \in Nat /\ Begin(field) = i + 3 /\ Begin(field) - 2 = i + 1 /\ Begin(field) - 1 = i + 2
    BY <1>3, <1>5, <2>1
  <2>4. url[i + 1] = ":" /\ url[i + 2] = "/" /\ url[i + 3] = "/" /\ i + 3 <= Len(url)
    BY <1>5, <2>1, <2>3
  <2> HIDE DEF i, w
  <2>5. \A k \in DOMAIN w : url[i + k] = w[k]
    <3>1. \A k \in 1 .. 3 : k = 1 \/ k = 2 \/ k = 3
      OBVIOUS
    <3>2. QED
      BY <2>2, <2>4, <3>1
  <2>6. Reads(i, Begin(field), w)
    BY <2>2, <2>3, <2>4, <2>5 DEF Reads
  <2>7. QED
    BY <2>6 DEF i, w
<1>7. ASSUME "UF_HOST" \in DOMAIN field
      PROVE  /\ field["UF_HOST"].len > 0 /\ Left("UF_HOST") \in Nat /\ OpensAt(field, url, Left("UF_HOST"))
             /\ Bracketed("UF_HOST") => Reads(End("UF_HOST"), Right("UF_HOST"), <<"]">>)
             /\ Right("UF_HOST") \in Nat /\ AfterHost(field, e) = e
             /\ "UF_PORT" \notin DOMAIN field => Right("UF_HOST") = e
             /\ "UF_PORT" \in DOMAIN field =>
                  /\ field["UF_PORT"].len > 0 /\ Stop(field, "UF_PORT") = e
                  /\ One(url, Right("UF_HOST"), field["UF_PORT"].off, ":")
  <2>1. CASE "UF_PORT" \notin DOMAIN field
    <3>1. HostTo(field, url, e)
      BY <1>1, <1>7, <2>1 DEF Accepted
    <3>2. QED
      BY <1>1, <1>5, <1>7, <2>1, <3>1, HostEdges DEF AfterHost
  <2>2. CASE "UF_PORT" \in DOMAIN field
    <3>1. PortTo(field, url, e)
      BY <1>1, <1>7, <2>2 DEF Accepted
    <3>2. HostTo(field, url, field["UF_PORT"].off - 1)
      BY <3>1 DEF PortTo
    <3>3. /\ field["UF_HOST"].len > 0 /\ Right("UF_HOST") = field["UF_PORT"].off - 1 /\ Left("UF_HOST") \in Nat
          /\ OpensAt(field, url, Left("UF_HOST")) /\ Right("UF_HOST") \in Nat
          /\ Bracketed("UF_HOST") => Reads(End("UF_HOST"), Right("UF_HOST"), <<"]">>)
      BY <1>1, <1>5, <1>7, <3>2, HostEdges
    <3>4. QED
      BY <1>7, <2>2, <3>1, <3>3 DEF PortTo, AfterHost
  <2>3. QED
    BY <2>1, <2>2
<1>8. "UF_USERINFO" \in DOMAIN field =>
        /\ "UF_HOST" \in DOMAIN field /\ field["UF_USERINFO"].off = Begin(field) /\ field["UF_USERINFO"].len > 0
        /\ One(url, Stop(field, "UF_USERINFO"), Left("UF_HOST"), "@")
  BY <1>1, <1>7 DEF OpensAt, Accepted
<1>9. "UF_HOST" \in DOMAIN field /\ "UF_USERINFO" \notin DOMAIN field =>
        Left("UF_HOST") = Begin(field) \/ One(url, Begin(field), Left("UF_HOST"), "@")
  BY <1>7 DEF OpensAt
<1>10. "UF_HOST" \notin DOMAIN field =>
         /\ AfterHost(field, e) = 0 /\ {"UF_USERINFO", "UF_PORT"} \cap DOMAIN field = {} /\ "UF_PATH" \in DOMAIN field
  BY <1>1, <1>2 DEF Accepted, AfterHost, Begin
<1>11. /\ "UF_PATH" \in DOMAIN field =>
            /\ field["UF_PATH"].off = AfterHost(field, e) /\ Stop(field, "UF_PATH") = AfterPath(field, e)
            /\ field["UF_PATH"].len > 0
       /\ "UF_PATH" \notin DOMAIN field =>
            AfterHost(field, e) = AfterPath(field, e) /\ "UF_HOST" \in DOMAIN field
  BY <1>1, <1>10 DEF Frame, AfterPath
<1>12. "UF_QUERY" \in DOMAIN field =>
         One(url, AfterPath(field, e), field["UF_QUERY"].off, "?") /\ field["UF_QUERY"].len > 0
  BY <1>1 DEF Frame
<1>13. "UF_FRAGMENT" \in DOMAIN field =>
         /\ field["UF_FRAGMENT"].len > 0
         /\ "UF_QUERY" \in DOMAIN field => Sharps(url, Stop(field, "UF_QUERY"), field["UF_FRAGMENT"].off)
         /\ "UF_QUERY" \notin DOMAIN field => Marks(url, AfterPath(field, e), field["UF_FRAGMENT"].off)
  BY <1>1 DEF Frame
<1>14. s \in {"s_req_server", "s_req_server_with_at", "s_req_path", "s_req_query_string_start",
              "s_req_query_string", "s_req_fragment_start", "s_req_fragment"}
  <2>1. "UF_HOST" \in DOMAIN field \/ "UF_PATH" \in DOMAIN field
    BY <1>10
  <2>2. s \notin SchemaStates \cup {"s_req_spaces_before_url", "s_req_server_start"}
    BY <1>1, <2>1 DEF Trailing, SchemaStates
  <2>3. QED
    BY <1>1, <2>2 DEF UrlStates, SchemaStates
<1>15. /\ "UF_FRAGMENT" \in DOMAIN field => Stop(field, "UF_FRAGMENT") = Len(url)
       /\ "UF_FRAGMENT" \notin DOMAIN field /\ "UF_QUERY" \in DOMAIN field =>
            Stop(field, "UF_QUERY") = Len(url) \/ Sharps(url, Stop(field, "UF_QUERY"), Len(url))
       /\ "UF_FRAGMENT" \notin DOMAIN field /\ "UF_QUERY" \notin DOMAIN field =>
            \/ AfterPath(field, e) = Len(url)
            \/ One(url, AfterPath(field, e), Len(url), "?")
            \/ Marks(url, AfterPath(field, e), Len(url))
  <2>1. CASE s \in HostFields
    BY <1>1, <1>7, <1>11, <2>1 DEF Trailing, NoPath
  <2>2. CASE s \in {"s_req_path", "s_req_query_string_start"}
    BY <1>1, <1>11, <2>2 DEF Trailing
  <2>3. CASE s \in {"s_req_query_string", "s_req_fragment_start", "s_req_fragment"}
    BY <1>1, <2>3 DEF Trailing
  <2>4. QED
    BY <1>14, <2>1, <2>2, <2>3 DEF HostFields
<1>16. /\ "UF_SCHEMA" \in DOMAIN field => Left("UF_SCHEMA") = 0 /\ Right("UF_SCHEMA") = Stop(field, "UF_SCHEMA")
       /\ \A f \in {"UF_USERINFO", "UF_PORT", "UF_PATH", "UF_QUERY", "UF_FRAGMENT"} :
            f \in DOMAIN field => Left(f) = field[f].off /\ Right(f) = Stop(field, f)
  BY <1>4, <1>5
<1>17. \A f \in DOMAIN field : /\ field[f].len > 0 /\ Left(f) \in Nat /\ Right(f) \in Nat
                               /\ Bracketed(f) => Reads(End(f), Right(f), <<"]">>)
  <2>1. SUFFICES ASSUME NEW f \in DOMAIN field
                 PROVE  /\ field[f].len > 0 /\ Left(f) \in Nat /\ Right(f) \in Nat
                        /\ Bracketed(f) => Reads(End(f), Right(f), <<"]">>)
    OBVIOUS
  <2>2. CASE f = "UF_HOST"
    BY <1>7, <2>2
  <2>3. CASE f # "UF_HOST"
    <3>1. f \in Names
      BY <1>1 DEF Spans
    <3>2. "UF_PORT" \in DOMAIN field => field["UF_PORT"].len > 0
      BY <1>7, <1>10
    <3>3. field[f].len > 0
      BY <1>5, <1>8, <1>11, <1>12, <1>13, <2>3, <3>1, <3>2 DEF Names
    <3>4. QED
      BY <1>4, <2>3, <3>3
  <2>4. QED
    BY <2>2, <2>3
<1>18. /\ "UF_SCHEMA" \in DOMAIN field =>
            /\ Left("UF_SCHEMA") = 0 /\ "UF_HOST" \in DOMAIN field
            /\ Reads(Right("UF_SCHEMA"), Begin(field), <<":", "/", "/">>)
       /\ "UF_USERINFO" \in DOMAIN field =>
            /\ Left("UF_USERINFO") = Begin(field) /\ "UF_HOST" \in DOMAIN field
            /\ One(url, Right("UF_USERINFO"), Left("UF_HOST"), "@")
  BY <1>5, <1>6, <1>8, <1>16
<1>19. "UF_PORT" \in DOMAIN field =>
         /\ "UF_HOST" \in DOMAIN field /\ One(url, Right("UF_HOST"), Left("UF_PORT"), ":")
         /\ Right("UF_PORT") = AfterHost(field, e)
  BY <1>7, <1>10, <1>16
<1>20. QED
  BY <1>1, <1>7, <1>9, <1>10, <1>11, <1>12, <1>13, <1>15, <1>16, <1>17, <1>18, <1>19 DEF e

\* What lies between a field and its neighbour.
LEMMA NothingBetween ==
  ASSUME UrlInv, result = "accepted", url # <<>>,
         NEW f \in DOMAIN field, NEW g \in DOMAIN field, Neighbours(f, g)
  PROVE  Between(f, g, Right(f), Left(g))
<1> DEFINE b == AfterHost(field, HostEnd)
           a == AfterPath(field, HostEnd)
<1>1. /\ Spans(field) /\ url \in Seq(Chars)
      /\ \A h \in DOMAIN field : Left(h) \in Nat /\ Right(h) \in Nat
      /\ "UF_SCHEMA" \in DOMAIN field =>
            "UF_HOST" \in DOMAIN field /\ Reads(Right("UF_SCHEMA"), Begin(field), <<":", "/", "/">>)
      /\ "UF_USERINFO" \in DOMAIN field =>
            /\ Left("UF_USERINFO") = Begin(field) /\ "UF_HOST" \in DOMAIN field
            /\ One(url, Right("UF_USERINFO"), Left("UF_HOST"), "@")
      /\ "UF_HOST" \in DOMAIN field /\ "UF_USERINFO" \notin DOMAIN field =>
            Left("UF_HOST") = Begin(field) \/ One(url, Begin(field), Left("UF_HOST"), "@")
      /\ "UF_PORT" \in DOMAIN field =>
            /\ "UF_HOST" \in DOMAIN field /\ One(url, Right("UF_HOST"), Left("UF_PORT"), ":")
            /\ Right("UF_PORT") = b
      /\ "UF_HOST" \in DOMAIN field /\ "UF_PORT" \notin DOMAIN field => Right("UF_HOST") = b
      /\ "UF_PATH" \in DOMAIN field => Left("UF_PATH") = b /\ Right("UF_PATH") = a
      /\ "UF_PATH" \notin DOMAIN field => "UF_HOST" \in DOMAIN field /\ b = a
      /\ "UF_QUERY" \in DOMAIN field => One(url, a, Left("UF_QUERY"), "?")
      /\ "UF_FRAGMENT" \in DOMAIN field =>
           /\ "UF_QUERY" \in DOMAIN field => Sharps(url, Right("UF_QUERY"), Left("UF_FRAGMENT"))
           /\ "UF_QUERY" \notin DOMAIN field => Marks(url, a, Left("UF_FRAGMENT"))
  BY WhereFieldsLie
<1> HIDE DEF a, b
<1>2. /\ f \in Names /\ g \in Names
      /\ g # "UF_SCHEMA" /\ f # "UF_FRAGMENT"
      /\ g = "UF_USERINFO" => f = "UF_SCHEMA"
      /\ g = "UF_HOST" => f = "UF_USERINFO" \/ (f = "UF_SCHEMA" /\ "UF_USERINFO" \notin DOMAIN field)
      /\ g = "UF_PORT" => f = "UF_HOST" \/ "UF_HOST" \notin DOMAIN field
      /\ g \in {"UF_PATH", "UF_QUERY", "UF_FRAGMENT"} =>
           \/ f \in {"UF_SCHEMA", "UF_USERINFO"} /\ "UF_HOST" \notin DOMAIN field
           \/ f = "UF_HOST" /\ "UF_PORT" \notin DOMAIN field
           \/ f \in {"UF_PORT", "UF_PATH", "UF_QUERY"}
      /\ f \in {"UF_SCHEMA", "UF_USERINFO", "UF_HOST", "UF_PORT"} /\ g \in {"UF_QUERY", "UF_FRAGMENT"} =>
           "UF_PATH" \notin DOMAIN field
      /\ g = "UF_FRAGMENT" => f = "UF_QUERY" \/ "UF_QUERY" \notin DOMAIN field
      /\ g = "UF_PATH" => f # "UF_QUERY"
      /\ g = "UF_QUERY" => f # "UF_QUERY"
      /\ g = "UF_PATH" => f # "UF_PATH"
  BY <1>1, NeighboursAre
<1>3. Left(f) \in Nat /\ Right(f) \in Nat /\ Left(g) \in Nat
  BY <1>1
<1>4. CASE g = "UF_USERINFO"
  BY <1>1, <1>2, <1>4 DEF Between
<1>5. CASE g = "UF_HOST" /\ f = "UF_USERINFO"
  <2>1. Reads(Right(f), Left(g), <<"@">>)
    BY <1>1, <1>3, <1>5, ReadsAre
  <2>2. QED
    BY <1>5, <2>1 DEF Between
<1>6. CASE g = "UF_HOST" /\ f = "UF_SCHEMA"
  <2> DEFINE i == Right(f)
             q == Left(g)
             w == <<":", "/", "/">>
  <2>1. i \in Nat /\ Reads(i, Begin(field), w) /\ (q = Begin(field) \/ One(url, Begin(field), q, "@"))
    BY <1>1, <1>2, <1>3, <1>6
  <2>2. CASE q = Begin(field)
    BY <1>6, <2>1, <2>2 DEF Between
  <2>3. CASE One(url, Begin(field), q, "@")
    <3> DEFINE x == <<":", "/", "/", "@">>
    <3>1. /\ Len(w) = 3 /\ DOMAIN w = 1 .. 3 /\ Len(x) = 4 /\ DOMAIN x = 1 .. 4 /\ x[4] = "@"
          /\ \A k \in 1 .. 3 : x[k] = w[k]
      OBVIOUS
    <3> HIDE DEF w, x, i, q
    <3>2. Begin(field) = i + 3 /\ \A k \in 1 .. 3 : url[i + k] = w[k]
      BY <2>1, <3>1 DEF Reads
    <3>3. q = i + 4 /\ q <= Len(url) /\ url[i + 4] = "@"
      BY <2>1, <2>3, <3>2 DEF One
    <3>4. \A k \in 1 .. 4 : k \in 1 .. 3 \/ k = 4
      OBVIOUS
    <3>5. \A k \in DOMAIN x : url[i + k] = x[k]
      BY <3>1, <3>2, <3>3, <3>4
    <3>6. Reads(i, q, x)
      BY <3>1, <3>3, <3>5 DEF Reads
    <3>7. QED
      BY <1>6, <3>6 DEF Between, i, q, x
  <2>4. QED
    BY <2>1, <2>2, <2>3
<1>7. CASE g = "UF_PORT"
  <2>1. f = "UF_HOST" /\ One(url, Right(f), Left(g), ":")
    BY <1>1, <1>2, <1>7
  <2>2. Reads(Right(f), Left(g), <<":">>)
    BY <1>1, <1>3, <2>1, ReadsAre
  <2>3. QED
    BY <1>7, <2>1, <2>2 DEF Between
<1>8. CASE g = "UF_PATH"
  <2>1. f \in {"UF_HOST", "UF_PORT"} /\ Right(f) = b /\ Left(g) = b
    BY <1>1, <1>2, <1>8
  <2>2. QED
    BY <1>8, <2>1 DEF Between
<1>9. CASE g = "UF_QUERY"
  <2>1. f \in {"UF_HOST", "UF_PORT", "UF_PATH"} /\ Right(f) = a /\ One(url, a, Left(g), "?")
    BY <1>1, <1>2, <1>9
  <2>2. Reads(Right(f), Left(g), <<"?">>)
    BY <1>1, <1>3, <2>1, ReadsAre
  <2>3. QED
    BY <1>9, <2>1, <2>2 DEF Between
<1>10. CASE g = "UF_FRAGMENT"
  <2>1. CASE f = "UF_QUERY"
    <3>1. Hashes(Right(f), Left(g))
      BY <1>1, <1>3, <1>10, <2>1, ReadsAre
    <3>2. QED
      BY <1>10, <2>1, <3>1 DEF Between
  <2>2. CASE f # "UF_QUERY"
    <3>1. f \in {"UF_HOST", "UF_PORT", "UF_PATH"} /\ Right(f) = a /\ Marks(url, a, Left(g))
      BY <1>1, <1>2, <1>10, <2>2
    <3>2. Hashes(Right(f), Left(g)) \/ (Reads(Right(f), Right(f) + 1, <<"?">>) /\ Hashes(Right(f) + 1, Left(g)))
      BY <1>1, <1>3, <3>1, ReadsAre
    <3>3. QED
      BY <1>10, <3>1, <3>2 DEF Between
  <2>3. QED
    BY <2>1, <2>2
<1>11. QED
  BY <1>2, <1>4, <1>5, <1>6, <1>7, <1>8, <1>9, <1>10 DEF Names

\* What stands before the first field.
LEMMA NothingBefore ==
  ASSUME UrlInv, result = "accepted", url # <<>>,
         NEW g \in DOMAIN field, \A h \in DOMAIN field : Rank[g] <= Rank[h]
  PROVE  Before(g)
<1>1. /\ Spans(field) /\ url \in Seq(Chars)
      /\ "UF_SCHEMA" \in DOMAIN field => Left("UF_SCHEMA") = 0
      /\ "UF_USERINFO" \in DOMAIN field => Left("UF_USERINFO") = Begin(field)
      /\ "UF_HOST" \in DOMAIN field /\ "UF_USERINFO" \notin DOMAIN field =>
            Left("UF_HOST") = Begin(field) \/ One(url, Begin(field), Left("UF_HOST"), "@")
      /\ "UF_PORT" \in DOMAIN field => "UF_HOST" \in DOMAIN field
      /\ "UF_PATH" \in DOMAIN field => Left("UF_PATH") = AfterHost(field, HostEnd)
      /\ "UF_PATH" \notin DOMAIN field => "UF_HOST" \in DOMAIN field
      /\ "UF_HOST" \notin DOMAIN field => AfterHost(field, HostEnd) = 0
  BY WhereFieldsLie
<1>2. g \in Names
  BY <1>1 DEF Spans
<1>3. /\ g # "UF_SCHEMA" => "UF_SCHEMA" \notin DOMAIN field
      /\ g = "UF_HOST" => "UF_USERINFO" \notin DOMAIN field
      /\ g \in {"UF_PORT", "UF_PATH", "UF_QUERY", "UF_FRAGMENT"} => "UF_HOST" \notin DOMAIN field
      /\ g \in {"UF_QUERY", "UF_FRAGMENT"} => "UF_PATH" \notin DOMAIN field
  BY <1>2, Ranks DEF Names
<1>4. g # "UF_SCHEMA" => Begin(field) = 0
  BY <1>3 DEF Begin
<1>5. CASE g = "UF_HOST"
  <2>1. Left("UF_HOST") = 0 \/ One(url, 0, Left("UF_HOST"), "@")
    BY <1>1, <1>3, <1>4, <1>5
  <2>2. One(url, 0, Left("UF_HOST"), "@") => Reads(0, Left("UF_HOST"), <<"@">>)
    BY <1>1, ReadsAre
  <2>3. QED
    BY <1>5, <2>1, <2>2 DEF Before
<1>6. CASE g # "UF_HOST"
  BY <1>1, <1>2, <1>3, <1>4, <1>6 DEF Before, Names
<1>7. QED
  BY <1>5, <1>6

\* What stands after the last field.
LEMMA NothingAfter ==
  ASSUME UrlInv, result = "accepted", url # <<>>,
         NEW f \in DOMAIN field, \A h \in DOMAIN field : Rank[h] <= Rank[f]
  PROVE  After(f, Len(url))
<1> DEFINE b == AfterHost(field, HostEnd)
           a == AfterPath(field, HostEnd)
           n == Len(url)
<1>1. /\ Spans(field) /\ url \in Seq(Chars)
      /\ \A h \in DOMAIN field : Right(h) \in Nat
      /\ "UF_SCHEMA" \in DOMAIN field => "UF_HOST" \in DOMAIN field
      /\ "UF_USERINFO" \in DOMAIN field => "UF_HOST" \in DOMAIN field
      /\ "UF_PORT" \in DOMAIN field => Right("UF_PORT") = b
      /\ "UF_HOST" \in DOMAIN field /\ "UF_PORT" \notin DOMAIN field => Right("UF_HOST") = b
      /\ "UF_PATH" \in DOMAIN field => Right("UF_PATH") = a
      /\ "UF_PATH" \notin DOMAIN field => b = a
      /\ "UF_FRAGMENT" \in DOMAIN field => Right("UF_FRAGMENT") = n
      /\ "UF_FRAGMENT" \notin DOMAIN field /\ "UF_QUERY" \in DOMAIN field =>
           Right("UF_QUERY") = n \/ Sharps(url, Right("UF_QUERY"), n)
      /\ "UF_FRAGMENT" \notin DOMAIN field /\ "UF_QUERY" \notin DOMAIN field =>
           a = n \/ One(url, a, n, "?") \/ Marks(url, a, n)
  BY WhereFieldsLie
<1>2. f \in Names /\ Right(f) \in Nat
  BY <1>1 DEF Spans
<1> HIDE DEF a, b, n
<1>3. /\ f # "UF_FRAGMENT" => "UF_FRAGMENT" \notin DOMAIN field
      /\ f \notin {"UF_FRAGMENT", "UF_QUERY"} => "UF_QUERY" \notin DOMAIN field
      /\ f \in {"UF_SCHEMA", "UF_USERINFO", "UF_HOST", "UF_PORT"} => "UF_PATH" \notin DOMAIN field
      /\ f \in {"UF_SCHEMA", "UF_USERINFO", "UF_HOST"} => "UF_PORT" \notin DOMAIN field
      /\ f \in {"UF_SCHEMA", "UF_USERINFO"} => "UF_HOST" \notin DOMAIN field
  BY <1>2, Ranks DEF Names
<1>4. CASE f = "UF_FRAGMENT"
  BY <1>1, <1>4 DEF After, n
<1>5. CASE f = "UF_QUERY"
  <2>1. Right(f) = n \/ Sharps(url, Right(f), n)
    BY <1>1, <1>3, <1>5
  <2>2. Sharps(url, Right(f), n) => Hashes(Right(f), n)
    BY <1>1, <1>2, ReadsAre
  <2>3. QED
    BY <1>5, <2>1, <2>2 DEF After, n
<1>6. CASE f \notin {"UF_FRAGMENT", "UF_QUERY"}
  <2>1. Right(f) = a
    BY <1>1, <1>2, <1>3, <1>6 DEF Names
  <2>2. a = n \/ One(url, a, n, "?") \/ Marks(url, a, n)
    BY <1>1, <1>3, <1>6
  <2>3. /\ One(url, Right(f), n, "?") => Reads(Right(f), n, <<"?">>)
        /\ Marks(url, Right(f), n) =>
             Hashes(Right(f), n) \/ (Reads(Right(f), Right(f) + 1, <<"?">>) /\ Hashes(Right(f) + 1, n))
    BY <1>1, <1>2, ReadsAre
  <2>4. One(url, Right(f), n, "?") => n = Right(f) + 1
    BY DEF One
  <2>5. QED
    BY <1>6, <2>1, <2>2, <2>3, <2>4 DEF After, n
<1>7. QED
  BY <1>4, <1>5, <1>6

\* The fields of an accepted URL follow one another in order, and only the delimiters
\* proper to the two lie between neighbours: http_parse_host moves the host's start and
\* counts its length anew, yet no character is in two fields, and none that matters in none.
THEOREM FieldsFollow == Spec => []FieldsTile
<1>1. UrlInv => FieldsTile
  <2>1. SUFFICES ASSUME UrlInv, result = "accepted", url # <<>>
                 PROVE  /\ DOMAIN field # {}
                        /\ \A f \in DOMAIN field :
                             /\ field[f].len > 0
                             /\ Bracketed(f) => Reads(End(f), Right(f), <<"]">>)
                             /\ (\A h \in DOMAIN field : Rank[f] <= Rank[h]) => Before(f)
                             /\ (\A h \in DOMAIN field : Rank[h] <= Rank[f]) => After(f, Len(url))
                             /\ \A g \in DOMAIN field : Neighbours(f, g) => Between(f, g, Right(f), Left(g))
    BY DEF FieldsTile
  <2>2. /\ \A f \in DOMAIN field : field[f].len > 0
        /\ \A f \in DOMAIN field : Bracketed(f) => Reads(End(f), Right(f), <<"]">>)
        /\ "UF_PATH" \notin DOMAIN field => "UF_HOST" \in DOMAIN field
    BY <2>1, WhereFieldsLie
  <2>3. ASSUME NEW f \in DOMAIN field
        PROVE  /\ (\A h \in DOMAIN field : Rank[f] <= Rank[h]) => Before(f)
               /\ (\A h \in DOMAIN field : Rank[h] <= Rank[f]) => After(f, Len(url))
               /\ \A g \in DOMAIN field : Neighbours(f, g) => Between(f, g, Right(f), Left(g))
    BY <2>1, NothingBefore, NothingAfter, NothingBetween
  <2>4. QED
    BY <2>2, <2>3
<1>2. QED
  BY SplitsInPlace, <1>1, PTL
================================================================================
