---------------------------- MODULE PushConfigs ----------------------------
(***************************************************************************)
(* The push notification configurations A2AServer keeps per task, in the   *)
(* order they were created.  A value and its operations.  An id given by   *)
(* the caller is not looked up before it is used: two configurations of a  *)
(* task may share it.                                                      *)
(***************************************************************************)
EXTENDS Integers, Sequences

CONSTANTS Tasks, ConfigIds, Urls

Config == [id : ConfigIds, url : Urls]

NoConfigs == [t \in Tasks |-> <<>>]

Named(configs, t, i) == {k \in DOMAIN configs[t] : configs[t][k].id = i}

Created(configs, t, i, u) ==
  [configs EXCEPT ![t] = Append(@, [id |-> i, url |-> u])]

\* _v1GetPushConfig: the first of that id, or a 404.
Found(configs, t, i) == Named(configs, t, i) # {}

\* _v1UpdatePushConfig changes the first of that id.
Updated(configs, t, i, u) ==
  LET first == CHOOSE k \in Named(configs, t, i) :
                 \A l \in Named(configs, t, i) : k <= l IN
  [configs EXCEPT ![t][first].url = u]

\* _v1DeletePushConfig drops every one of that id.
Deleted(configs, t, i) ==
  LET Other(c) == c.id # i IN [configs EXCEPT ![t] = SelectSeq(@, Other)]
=============================================================================
