--------------------------- MODULE MCCompilerFlags ---------------------------
(* Small instance of CompilerFlags: versions on each side of every minimum, *)
(* a user environment with and without flags, and a compiler that accepts   *)
(* everything or lacks lld and -Wredundant-tags (gcc before 10).            *)
EXTENDS CompilerFlags

MCCompilers == {"gcc", "clang", "icpc"}
MCVersions == {<<5, 9, 0>>, <<6, 0, 0>>, <<7, 3, 1>>, <<7, 4, 0>>, <<10, 0, 0>>}
MCPlatforms == {"linux", "darwin", "freebsd"}
MCMachines == {"x86_64", "armv7l", "arm64"}
MCUserCxx == {<<>>, <<"-O3">>}
MCUserLink == {<<>>, <<"-static">>}
MCRejects == {{}, {"-fuse-ld=lld", "-Wredundant-tags"}}
=============================================================================
