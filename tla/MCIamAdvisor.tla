----------------------------- MODULE MCIamAdvisor -----------------------------
(***************************************************************************)
(* An instance of IamAdvisor for TLC.  Two roles whose names begin with    *)
(* the same letters, the first with two policies, and a user.  policy1 has *)
(* a statement with a Sid and a Deny without; policy2 has one statement    *)
(* without a Sid.                                                          *)
(***************************************************************************)
EXTENDS IamAdvisor, TLC

CONSTANTS reader, reader2, user, bucket, policy1, policy2, long, i1, i2

Stmt(sid, effect, actions, condition) ==
  [sid |-> sid, effect |-> effect, actions |-> actions, resource |-> 1,
   condition |-> condition]

Deny == Stmt(Nothing, "Deny", {"c"}, 1)
MCDocument ==
  (policy1 :> <<Stmt("s", "Allow", {"a", "b"}, 1), Deny>>) @@
  (policy2 :> <<Stmt(Nothing, "Allow", {"a"}, 1)>>)

\* Without the unused action a and with b in capitals; with the used action b
\* gone; with another condition; without Deny; no policy at all.  policy2 may
\* become empty.
MCRevisions ==
  (policy1 :> {<<Stmt("s", "Allow", {"B"}, 1), Deny>>, <<Stmt("s", "Allow", {"a"}, 1), Deny>>,
         <<Stmt("s", "Allow", {"b"}, 2), Deny>>,
         <<Stmt("s", "Allow", {"b"}, 1)>>, Malformed}) @@
  (policy2 :> {<<>>, <<Stmt(Nothing, "Allow", {"a"}, 2)>>})

MCResource == {reader, reader2, user, bucket}
MCType == (reader :> "role") @@ (reader2 :> "role") @@ (user :> "user")
            @@ (bucket :> "other")
MCAttached == (reader :> <<policy1, policy2>>) @@ (reader2 :> <<policy2>>) @@ (user :> Nothing)
                @@ (bucket :> Nothing)
MCShortName == [r \in MCResource |-> IF r = user THEN user ELSE long]

Unused(r, a) == [resource |-> r, action |-> a]
MCSummaries ==
  {<<Unused(reader2, "a"), Unused(bucket, "a"), Unused(reader2, Nothing)>>,
   <<Unused(reader, "a"), Unused(reader2, "a"), Unused(user, "a")>>}

MCLower == ("a" :> "a") @@ ("b" :> "b") @@ ("B" :> "b") @@ ("c" :> "c")

InvocationSymmetry == Permutations(Invocation)
=============================================================================
