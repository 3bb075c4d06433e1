----------------------------- MODULE MCOAuthLogin -----------------------------
(* Instances of OAuthLogin for TLC. *)
EXTENDS OAuthLogin, TLC

Queries == {[clientType |-> "web", redirect |-> NONE]}
           \cup [clientType : {"cli"}, redirect : {CUSTOM, MALFORMED, NONE}]
OneQuery == [clientType : {"web"}, redirect : {NONE}]

Symmetric == Permutations(Callback) \cup Permutations(Code) \cup Permutations(GithubId)
             \cup Permutations(Attempt) \cup Permutations(Creation)
================================================================================
