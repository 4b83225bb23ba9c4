-------------------------------- MODULE MCFs --------------------------------
(* Instances of Fs for TLC. *)
EXTENDS Fs, TLC

C(op, path) == [op |-> op, path |-> path, new |-> <<>>]

(* The root, with an empty directory "a" in it. *)
Dir(self, up) == [NoDir EXCEPT !["."] = self, ![".."] = up]
MCImage ==
  [type |-> <<"dir", "dir", "free">>, nlink |-> <<2, 1, 0>>,
   dir |-> <<[Dir(1, 1) EXCEPT !["a"] = 2], Dir(2, 1), NoDir>>]

(* Calls that reach every branch: in the current directory and in "a", and *)
(* through ".." and "/".                                                   *)
MCCall ==
  {C("create", <<"a", "b">>), C("unlink", <<"a">>),
   C("unlink", <<"a", "b">>), C("chdir", <<"a">>), C("mkdir", <<"..", "a">>),
   C("open", <<"a">>), C("mknod", <<"b">>),
   C("unlink", <<"a", "..">>),
   [op |-> "link", path |-> <<"a", "b">>, new |-> <<"/", "b">>]}

Symmetric == Permutations(Proc)
=============================================================================
