------------------------- MODULE MCProviderRegistry -------------------------
(* Values for ProviderRegistry: of the two tables of the code, the languages   *)
(* with two providers and one that shares a binary with them; a language       *)
(* without a provider; slugs of any case, and one that is no language's;       *)
(* overrides of Python's providers, of a provider that is not registered, of a *)
(* language that has none and of none.                                         *)
EXTENDS ProviderRegistry

SomeKnown    == {"python", "typescript", "javascript", "swift"}
SomeSlugs    == {"python", "Python", "swift", "pyhton"}
SlugLanguage ==
  [s \in SomeSlugs |->
    CASE s = "pyhton" -> "none" [] s = "swift" -> "swift" [] OTHER -> "python"]

SomeProviders == {"pyright", "pylsp", "typescript-language-server", "vtsls"}
SomeBinaries  == {"pyright-langserver", "pylsp", "typescript-language-server", "vtsls", "custom"}
SomeArgs      == {"", "--stdio", "--quiet"}

Entry(id, binary, args) == [id |-> id, binaries |-> <<binary>>, args |-> args]
TsServer == Entry("typescript-language-server", "typescript-language-server", "--stdio")

CodeDefaults ==
  [l \in {"python", "typescript", "javascript"} |->
    CASE l = "python" -> <<Entry("pyright", "pyright-langserver", "--stdio"), Entry("pylsp", "pylsp", "")>>
      [] l = "typescript" -> <<TsServer, Entry("vtsls", "vtsls", "--stdio")>>
      [] OTHER -> <<TsServer>>]

CodeDiscovery ==
  [l \in {"python", "typescript", "javascript"} |->
    CASE l = "python" -> <<"pyright-langserver", "pylsp">>
      [] l = "typescript" -> <<"typescript-language-server", "vtsls">>
      [] OTHER -> <<"typescript-language-server">>]

Over(l, p, bins, args) == [language |-> l, provider |-> p, binaries |-> bins, args |-> args]

SomeOverrides == {
  Over("python", "pylsp", <<>>, "none"), Over("Python", "pylsp", <<"custom">>, "none"),
  Over("python", "pyright", <<>>, "--quiet"), Over("python", "gopls", <<>>, "none"),
  Over("swift", "pylsp", <<>>, "none"), Over("pyhton", "pylsp", <<>>, "none")}
=============================================================================
