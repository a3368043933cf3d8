---------------------------- MODULE MCHttpServer ----------------------------
(***************************************************************************)
(* The lines a peer sends in the run of HttpServer.                        *)
(***************************************************************************)
EXTENDS HttpServer

RequestLine(method, path, version) ==
  [Blank EXCEPT !.method = method, !.path = path, !.version = version]

Header(key, value) == [Blank EXCEPT !.method = key, !.key = key, !.value = value]

\* Good request lines of both versions, one the server refuses, headers and
\* the end of the headers.
SomeLines ==
  {RequestLine("GET", "/index", "kHttp11"),
   RequestLine("GET", "/quiet", "kHttp10"),
   RequestLine("POST", "/index", "kHttp11"),
   Header("Connection", "close"),
   Header("Connection", "Keep-Alive"),
   Blank}
=============================================================================
