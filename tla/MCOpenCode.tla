---------------------------- MODULE MCOpenCode ----------------------------
(* Two calls at a time; what they are and what they find on the server.    *)
EXTENDS OpenCode
MCBatches == {<<"r1">>, <<"r2">>, <<"r1", "r2">>}
AtRest == {h \in History : Len(h) = 1 \/ h[2].turns # <<>>}
Mix(kinds, found) == [kinds |-> kinds, found |-> found]
MCMixes == {Mix({"start", "swarm_start"}, History), Mix({"start", "continue"}, AtRest),
            Mix({"continue", "cancel"}, AtRest), Mix({"turn", "answer"}, {UserSession}),
            Mix({"turn", "pause"}, {UserSession}), Mix({"send", "abort", "resume"}, {UserSession}),
            Mix({"wait", "status"}, AtRest)}
=============================================================================
