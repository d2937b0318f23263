-------------------------- MODULE MCMemoryController --------------------------
(* Instances of MemoryController: two channels, four banks, two             *)
(* accelerators, of which the first has two slots.                          *)
EXTENDS MemoryController

ThreeTasks == {<<0, 0>>, <<0, 1>>, <<1, 0>>}

Accesses(t, kind, banks) == [task : {t}, kind : {kind}, bank : banks]

(* The banks of lane 0, which are 0 and 2, are shared by all; the first     *)
(* channel also uses bank 1, and so has two lanes its answers come by.      *)
LoadsAndAtomics ==
  Accesses(<<0, 0>>, "load", {0, 2}) \cup Accesses(<<0, 0>>, "atomic load", {2})
  \cup Accesses(<<0, 1>>, "load", {1}) \cup Accesses(<<0, 1>>, "atomic load", {0})
  \cup Accesses(<<1, 0>>, "load", {0, 2}) \cup Accesses(<<1, 0>>, "atomic load", {0, 2})

(* As above, with plain stores to a bank others do atomic operations on.    *)
WithStores == LoadsAndAtomics \cup Accesses(<<1, 0>>, "store", {0})
===============================================================================
