----------------------------- MODULE MCPageTables -----------------------------
(***************************************************************************)
(* Instances of PageTables for TLC: of the 512 entries of a PML4, one for  *)
(* the image and heap, one for the stack and one for the kernel.           *)
(***************************************************************************)
EXTENDS PageTables

CONSTANT FrameCount

Low == 0
Top == 1
Kernel == 2
Slots == {Low, Top, Kernel}

Numbers == 1 .. FrameCount
Kernels == <<1, 2, 3, 4>>
Path == <<Kernel, Top, Top>>

\* The window maps frames one to one, tables included.
Identity == [i \in Slots |-> i + 1]

\* Two pages of one table, one that needs a PDT of its own, and the stack.
Stack == <<Top, Top, Top, Top>>
Pages == {<<Low, Low, Low, Low>>, <<Low, Low, Low, Top>>, Stack,
          <<Kernel, Top, Top, Low>>}
===============================================================================
