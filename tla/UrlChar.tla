-------------------------------- MODULE UrlChar --------------------------------
(***************************************************************************)
(* parse_url_char (utils/http_parser.cpp): the character machine of URLs.  *)
(* http_parser_execute runs it over the target of a request line,          *)
(* http_parser_parse_url over a URL of its own.                            *)
(*                                                                         *)
(* A character stands for those that every class macro treats alike: "a"   *)
(* for the letters that are hexadecimal digits, "1" for the digits, "%"    *)
(* for itself, the delimiters for themselves.  HTTP_PARSER_STRICT is set   *)
(* (http_parser.h:51-53).                                                  *)
(***************************************************************************)

IS_USERINFO_CHAR(ch) == ch \in {"a", "1", "%", ":"}
IS_URL_CHAR(ch) == ch \notin {"?", "#"}

\* "*" at the start and characters like "~" behave as "/" and as "%" do.
parse_url_char(st, ch) ==
  CASE st = "s_req_spaces_before_url" /\ ch = "/" -> "s_req_path"
    [] st = "s_req_spaces_before_url" /\ ch = "a" -> "s_req_schema"
    [] st = "s_req_schema" /\ ch = "a" -> st
    [] st = "s_req_schema" /\ ch = ":" -> "s_req_schema_slash"
    [] st = "s_req_schema_slash" /\ ch = "/" -> "s_req_schema_slash_slash"
    [] st = "s_req_schema_slash_slash" /\ ch = "/" -> "s_req_server_start"
    [] st = "s_req_server_with_at" /\ ch = "@" -> "s_dead"
    [] st \in {"s_req_server_with_at", "s_req_server_start", "s_req_server"} ->
        (CASE ch = "/" -> "s_req_path"
           [] ch = "?" -> "s_req_query_string_start"
           [] ch = "@" -> "s_req_server_with_at"
           [] IS_USERINFO_CHAR(ch) \/ ch \in {"[", "]"} -> "s_req_server"
           [] OTHER -> "s_dead")
    [] st = "s_req_path" ->
        (CASE IS_URL_CHAR(ch) -> st
           [] ch = "?" -> "s_req_query_string_start"
           [] OTHER -> "s_req_fragment_start")
    [] st \in {"s_req_query_string_start", "s_req_query_string"} ->
         IF ch = "#" THEN "s_req_fragment_start" ELSE "s_req_query_string"
    [] st = "s_req_fragment_start" -> IF ch = "#" THEN st ELSE "s_req_fragment"
    [] st = "s_req_fragment" -> st
    [] OTHER -> "s_dead"
===============================================================================
