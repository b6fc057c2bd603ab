----------------------------- MODULE MCLittleFs -----------------------------
(* littlefs on nine blocks, three paths and one file handle.  A name is a
   number, a block holds seven pointers or bytes, so that what is written
   behind the hole of a seek needs more than one block, and a metadata block
   four tags, so that the root directory is soon split and worn. *)
EXTENDS LittleFs

MCPaths == {<<1>>, <<2>>, <<1, 1>>}
MCOpenFlags == {{"CREAT"}, {"TRUNC", "APPEND"}}
MCData == {<<1, 2, 3, 4>>}
View0 == <<f, failures>>
=============================================================================
