--------------------------- MODULE MCAuthFriends ---------------------------
(* AuthFriends for TLC: two registered users, an unknown id, and three or *)
(* four handler slots (set in the cfg), enough for an AddFriend, a         *)
(* HandleFriendRequest and a DeleteFriend of the same pair to overlap.    *)
EXTENDS AuthFriends, TLC

MCSymmetry == Permutations(Calls) \cup Permutations(Users) \cup Permutations(Tokens)
=============================================================================
