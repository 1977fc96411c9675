------------------------------ MODULE MCEnvelope ------------------------------
(* A small instance of Envelope: every profile, bodies with each optional   *)
(* part present and absent, and the values the rules tell apart.            *)
EXTENDS Envelope

(* Every body over the fields of choice, each absent or one of its values.  *)
optional(choice) ==
    {drop(b, {f \in DOMAIN b : b[f] = "-"}) :
        b \in {c \in [DOMAIN choice -> UNION {choice[f] : f \in DOMAIN choice}] :
                  \A f \in DOMAIN choice : c[f] \in choice[f]}}

mcBodies ==
    [chat |-> optional([messages |-> {"-", "secret"}, tools |-> {"-", "secret", "[]"},
                        tool_choice |-> {"-", "secret", "null"}, stream |-> {"-", "true"},
                        stream_options |-> {"-", "null", "junk"}])
              \cup optional([messages |-> {"secret"}, user |-> {"-", "secret user"},
                             _bind |-> {"-", "junk"}, model |-> {"-", "m"}]),
     image |-> optional([prompt |-> {"-", "secret"}, response_format |-> {"-", "b64_json", "url", "[]"},
                         model |-> {"m"}]),
     asyncimage |-> optional([prompt |-> {"-", "secret"}, response_format |-> {"-", "b64_json", "url"},
                              _bind |-> {"-", "junk"}]),
     anthropic |-> optional([messages |-> {"-", "secret"}, system |-> {"-", "secret"},
                             tools |-> {"-", "secret"}, stream |-> {"-", "true"}, model |-> {"m"}]),
     speech |-> optional([file_base64 |-> {"-", "secret"}, language |-> {"-", "secret"},
                          prompt |-> {"-", "secret"}, response_format |-> {"-", "json", "text"},
                          stream |-> {"-", "false", "true"}]),
     embedding |-> optional([input |-> {"-", "secret"}, model |-> {"-", "m"}]),
     unknown |-> optional([messages |-> {"secret"}, prompt |-> {"-", "secret"},
                           file_base64 |-> {"-", "secret"}, input |-> {"-", "secret"}])]

usages == {"-", "usage:3", "usage:", "usage:null", "null"}

mcFrames ==
    [chat |-> optional([choices |-> {"-", "generated"}, usage |-> {"-", "usage:3"}, model |-> {"m"}]),
     image |-> optional([data |-> {"-", "generated"}, usage |-> usages \cup {"usage:0.5", "usage:x"},
                         model |-> {"m"}]),
     asyncimage |-> optional([data |-> {"generated"}, usage |-> {"-", "usage:3"},
                              jobId |-> {"-", "j1", "j2"}, status |-> {"-", "completed", "failed"}]),
     anthropic |-> optional([type |-> {"-", "message", "message_start", "content_block_delta",
                                       "message_stop", "error", "new_shape"},
                             content |-> {"-", "generated"}, delta |-> {"-", "generated"},
                             stop_sequence |-> {"-", "generated"}, error |-> {"-", "generated"}])
                    \cup optional([type |-> {"message_start", "content_block_delta"},
                                   delta |-> {"-", "generated"},
                                   message |-> {"obj", "obj[]", "obj[generated]", "junk", "null"}]),
     speech |-> optional([text |-> {"-", "generated"}, words |-> {"-", "generated"},
                          usage |-> usages \cup {"usage:-1"},
                          duration |-> {"-", "3", "4", "0.5", "null"}]),
     embedding |-> optional([data |-> {"generated"}, usage |-> usages])]

conf0 == [seal |-> {}, extra |-> {}, unbound |-> DefaultUnboundFields, model |-> blank, bind |-> FALSE]

mcConfs ==
    {conf0,
     [conf0 EXCEPT !.bind = TRUE, !.model = "m2"],
     [conf0 EXCEPT !.seal = {"messages", "tools", "user"}, !.extra = {"user"}, !.unbound = {}],
     [conf0 EXCEPT !.unbound = {"model", "response_format"}],
     [conf0 EXCEPT !.seal = {"messages", "tools", "_bind"}, !.unbound = {"stream"}]}

mcLists ==
    [chat |-> {{"messages"}, {"messages", "tools"}, {"messages", "tools", "tool_choice", "_bind"}, {"tools"}},
     image |-> {{"prompt"}, {"prompt", "response_format"}, {"model"}},
     asyncimage |-> {{"prompt"}, {"prompt", "_bind"}},
     anthropic |-> {{"messages"}, {"messages", "system", "tools"}},
     speech |-> {{"file_base64"}, {"file_base64", "language", "prompt"}, {"file_base64", "stream"}},
     embedding |-> {{"input"}, {"model"}}]

mcFrameLists ==
    [chat |-> {{}, {"choices"}, {"choices", "usage"}},
     image |-> {{}, {"data"}, {"data", "usage"}},
     asyncimage |-> {{"data"}, {"data", "jobId"}},
     anthropic |-> {{}, {"content"}, {"content", "stop_sequence"}, {"delta"}, {"delta", "message"}, {"error"}},
     speech |-> {{"text"}, {"text", "words"}, {"text", "words", "duration"}},
     embedding |-> {{"data"}, {}}]

mcUnbounds ==
    [chat |-> {{}, {"model"}, {"usage"}},
     image |-> {{}, {"model", "response_format"}, {"usage"}},
     asyncimage |-> {{"model"}, {"jobId"}},
     anthropic |-> {{}, {"type"}, {"message"}},
     speech |-> {{}, {"duration"}, {"response_format"}},
     embedding |-> {{"model"}}]

mcRewrites == {<<"model", "evil">>, <<"response_format", "url">>,
               <<"response_format", "verbose_json">>, <<"tools", "evil">>,
               <<"type", "message_start">>, <<"usage", "usage:4">>, <<"duration", "4">>,
               <<"jobId", "j1">>, <<"message", "obj">>, <<"stream", "true">>}

mcJobIDs == {<<"j1">>, <<"j2">>, <<"j", "1">>, <<blank>>, <<"bad_char">>}
=============================================================================
