--------------------------- MODULE MCEngineProtocol ---------------------------
(* Instances of EngineProtocol for TLC: the frames a host writes.          *)
EXTENDS EngineProtocol

Call(method, keys, valid) ==
  [id |-> None, method |-> method, keys |-> keys, valid |-> valid, envelope |-> TRUE,
   size |-> 1, decodes |-> TRUE]
Good(method) == Call(method, Required(method), TRUE)

DictationCalls ==
  {Good("app.bootstrap"), Good("dictation.start"), Good("dictation.stop"), Good("dictation.cancel")}

\* A call that is refused for its keys, and a frame in two chunks that does not
\* decode.
OddCalls ==
  {Good("app.shutdown"), Call("models.cancel", {"jobId", "modelId"}, TRUE),
   [Good("settings.get") EXCEPT !.size = 2, !.decodes = FALSE]}

AllCalls == DictationCalls \cup OddCalls

===============================================================================
