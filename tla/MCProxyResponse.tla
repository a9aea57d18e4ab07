---------------------------- MODULE MCProxyResponse ----------------------------
(* Small instances of ProxyResponse for TLC. *)
EXTENDS ProxyResponse

Partial == [prompt |-> 1, completion |-> 1, total |-> 0]
Middle  == [prompt |-> 1, completion |-> 2, total |-> 3]
Final   == [prompt |-> 0, completion |-> 3, total |-> 4]
SomeUsages == {Partial, Middle, Final}

Line(kind, u) == [kind |-> kind, usage |-> u]
StreamLines ==
  {Line("blank", NoUsage), Line("delta", NoUsage), Line("report", Partial),
   Line("report", Middle), Line("usage_only", Final), Line("long", Final)}

AllQueries ==
  [key : {"none", "set"}, metrics : BOOLEAN, wants : BOOLEAN, model : {"tokens", "websearch"}]
StreamQueries ==
  [key : {"set"}, metrics : BOOLEAN, wants : BOOLEAN, model : {"tokens", "websearch"}]

Streams == [status : {"ok", "error"}, type : {"stream"}, body : {"plain"}]
Bodies  == [status : {"ok", "error"}, type : {"json", "other"},
            body : {"usage", "plain", "huge"}]
             \cup {[status |-> "upgrade", type |-> "other", body |-> "plain"]}
AllAnswers == Streams \cup Bodies

=============================================================================
