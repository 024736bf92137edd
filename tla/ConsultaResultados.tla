------------------------- MODULE ConsultaResultados -------------------------
(***************************************************************************)
(* What the electoral management screens answer (mod_gestao_eleitoral):    *)
(* every question has two plans, the raw table of results by section and   *)
(* the aggregates of the elections whose refresh is ready, four chained    *)
(* levels plus two catalogues (migrations 073 to 076).  Which plan is used *)
(* depends on the filters and on the territories the user may see.         *)
(*                                                                         *)
(* A row of the raw table is                                               *)
(*   [e, uf, mun, zona, local, secao, cargo, num, nome, votos]             *)
(* with local = 0 and nome = 0 for NULL.  A municipality stands for both of*)
(* its codes, an electoral zone is <<mun, zona>>, a section                *)
(* <<mun, zona, secao>>: the keys of the joins with the schema global.     *)
(* Labels, limits of the option lists, party, coordinates and averages are *)
(* left out; names are numbers so that MAX chooses one.                    *)
(***************************************************************************)
EXTENDS ResultadosRollup, Integers
LOCAL INSTANCE FiniteSetsExt

CONSTANTS
    Eleicoes,        \* elections (year, code, round)
    Tabelas,         \* the raw tables that loads may leave
    Filtros,         \* filters of a request
    Acessos,         \* territorial access of a user
    UfDe,            \* [municipality -> its state] (global.municipio, global.estado)
    MunicipioDe,     \* [quarters and territories of the tenant -> municipality]
    ZonasGlobais,    \* <<mun, zona>> of global.zona_eleitoral
    SecoesGlobais,   \* <<mun, zona, secao>> of global.secao_eleitoral
    Localizados,     \* municipalities with coordinates
    LimiteRanking, LimiteMapa

\* TSE files: one row per section, office and number (resultados_eleicoes_uk), and
\* one name for a number in an election, municipality and office.
ASSUME TabelasAssumption ==
    \A T \in Tabelas : \A l, k \in T :
        /\ l.votos \in Nat /\ l.nome \in Nat /\ l.uf = UfDe[l.mun]
        /\ <<l.e, l.mun, l.cargo, l.num>> = <<k.e, k.mun, k.cargo, k.num>> => l.nome = k.nome
        /\ (l # k => <<l.e, l.mun, l.zona, l.secao, l.cargo, l.num>>
                       # <<k.e, k.mun, k.zona, k.secao, k.cargo, k.num>>)

VARIABLES
    tabela,        \* tse.resultados_eleicoes
    consolidado,   \* [Eleicoes -> status and active generation of the aggregates]
    votaveis       \* tse.resultado_votavel

varsConsulta == <<tabela, consolidado, votaveis>>

Somar(S) == MapThenSumSet(LAMBDA l : l.votos, S)

-----------------------------------------------------------------------------
(* The refresh: tse.fn_refresh_resultado_rollup *)

CamposMunicipio == {"e", "uf", "mun", "cargo", "num"}
CamposZona      == CamposMunicipio \cup {"zona"}
CamposLocal     == CamposZona \cup {"local"}
Campos          == CamposLocal \cup {"secao", "nome", "votos"}

Projetar(l, C) == [c \in C |-> l[c]]

\* GROUP BY C with MAX(nm_votavel) and SUM(qt_votos)
Agrupar(S, C) ==
    LET Grupo(k) == {l \in S : Projetar(l, C) = k}
    IN  {[c \in Campos |-> IF c \in C THEN k[c]
                           ELSE IF c = "nome" THEN Max({l.nome : l \in Grupo(k)})
                           ELSE IF c = "votos" THEN Somar(Grupo(k)) ELSE 0]
            : k \in {Projetar(l, C) : l \in S}}

\* COALESCE(nr_local_votacao, -1)
NivelSecao(S) == {[l EXCEPT !.local = IF @ = 0 THEN -1 ELSE @] : l \in S}
NivelLocal(S)     == Agrupar(NivelSecao(S), CamposLocal)
NivelZona(S)      == Agrupar(NivelLocal(S), CamposZona)
NivelMunicipio(S) == Agrupar(NivelZona(S), CamposMunicipio)

\* The catalogue of zones, rewritten by the trigger on the control row.
Localidades(S) ==
    {[e |-> l.e, uf |-> l.uf, mun |-> l.mun, zona |-> l.zona, local |-> 0, secao |-> 0,
      cargo |-> 0, nome |-> 0] : l \in S}

\* The catalogue of names: one per election, state, office and number.
NomesDe(S) ==
    {[e |-> l.e, uf |-> l.uf, cargo |-> l.cargo, num |-> l.num,
      nome |-> Max({k.nome : k \in {x \in S : /\ x.uf = l.uf /\ x.cargo = l.cargo
                                              /\ x.num = l.num}})]
        : l \in {x \in S : x.nome # 0}}

DaEleicao(S, e) == {l \in S : l.e = e}

SemGeracao == [status |-> "pending", secao |-> {}, local |-> {}, zona |-> {}, municipio |-> {},
               localidades |-> {}]

InitConsulta ==
    /\ tabela = {} /\ votaveis = {}
    /\ consolidado = [e \in Eleicoes |-> SemGeracao]

\* A load, outside the repository's programs, replaces the table.
CarregarTabela(T) ==
    /\ T # tabela
    /\ tabela' = T
    /\ UNCHANGED <<consolidado, votaveis>>

PedirConsolidacao(e) ==
    /\ consolidado[e].status = "ready"
    /\ consolidado' = [consolidado EXCEPT ![e].status = "pending"]
    /\ UNCHANGED <<tabela, votaveis>>

\* One transaction: the photograph, its levels, the check of the totals, the
\* catalogues and the pointer.
Consolidar(e) ==
    LET S == DaEleicao(tabela, e)
        niveis == [status |-> "ready", secao |-> NivelSecao(S), local |-> NivelLocal(S),
                   zona |-> NivelZona(S), municipio |-> NivelMunicipio(S),
                   localidades |-> Localidades(S)]
    IN  /\ consolidado[e].status = "pending"
        /\ \A n \in {"secao", "local", "zona", "municipio"} : Somar(niveis[n]) = Somar(S)
        /\ consolidado' = [consolidado EXCEPT ![e] = niveis]
        /\ votaveis' = {v \in votaveis : v.e # e} \cup NomesDe(S)
        /\ UNCHANGED tabela

NextConsulta ==
    \/ \E T \in Tabelas : CarregarTabela(T)
    \/ \E e \in Eleicoes : PedirConsolidacao(e) \/ Consolidar(e)

-----------------------------------------------------------------------------
(* Scope and filters *)

Irrestrito == [irrestrito |-> TRUE, ufs |-> {}, muns |-> {}, zonas |-> {}, secoes |-> {}]

\* resolve_scope_references: a quarter or a territory stands for its municipality.
MunicipiosReferidos(lugares) == {MunicipioDe[x] : x \in lugares \cap DOMAIN MunicipioDe}

\* territorial_scope: the pairs <<kind, id>> of the user's access.
EscopoDe(acesso) ==
    LET Ids(tipo) == {p[2] : p \in {q \in acesso : q[1] = tipo}}
    IN  IF Ids("global") # {} THEN Irrestrito
        ELSE [irrestrito |-> FALSE, ufs |-> Ids("estado"),
              muns |-> Ids("municipio")
                         \cup MunicipiosReferidos(Ids("bairro") \cup Ids("territorio")),
              zonas |-> Ids("zona_eleitoral"), secoes |-> Ids("secao_eleitoral")]

\* _territory_match_sql
NoTerritorio(l, s) ==
    \/ l.mun \in s.muns
    \/ <<l.mun, l.zona>> \in s.zonas \cap ZonasGlobais
    \/ <<l.mun, l.zona, l.secao>> \in s.secoes \cap SecoesGlobais

NoEscopo(l, s) == s.irrestrito \/ l.uf \in s.ufs \/ NoTerritorio(l, s)

\* An empty list does not filter.
Listado(lista, v) == lista = {} \/ v \in lista

\* _place_match_sql
NoLugar(l, f) == /\ Listado(f.muns, l.mun) /\ Listado(f.zonas, l.zona)
                 /\ Listado(f.locais, l.local) /\ Listado(f.secoes, l.secao)

NoFiltro(l, f) == /\ Listado(f.chaves, l.e) /\ Listado(f.ufs, l.uf) /\ Listado(f.cargos, l.cargo)
                  /\ NoLugar(l, f)
                  /\ Listado(f.nomes, l.nome)

Passa(S, f, s) == {l \in S : NoFiltro(l, f) /\ NoEscopo(l, s)}

-----------------------------------------------------------------------------
(* The two plans *)

\* active_rollup_generations
ComAgregado(f) ==
    f.chaves # {} /\ \A e \in f.chaves : consolidado[e].status = "ready"

\* Mutant of NivelExigido: sections of the user's access do not raise the level.
NivelSemSecoes(f, s, pedido) ==
    IF f.secoes # {} THEN "secao"
    ELSE IF f.locais # {} THEN (IF pedido = "secao" THEN "secao" ELSE "local")
    ELSE IF (f.zonas # {} \/ s.zonas # {}) /\ pedido = "municipio" THEN "zona"
    ELSE pedido

\* _required_level
NivelExigido(f, s, pedido) ==
    IF f.secoes # {} \/ s.secoes # {} THEN "secao"
    ELSE IF f.locais # {} THEN (IF pedido = "secao" THEN "secao" ELSE "local")
    ELSE IF (f.zonas # {} \/ s.zonas # {}) /\ pedido = "municipio" THEN "zona"
    ELSE pedido

Bruto(f, s) == Passa(tabela, f, s)

\* _analytical_from
Analitico(f, s, pedido) ==
    IF ComAgregado(f)
    THEN Passa(UNION {consolidado[e][NivelExigido(f, s, pedido)] : e \in f.chaves}, f, s)
    ELSE Bruto(f, s)

-----------------------------------------------------------------------------
(* The questions, over the rows of a plan *)

SemLocal(l) == l.local \in {0, -1}
Local(l)    == IF SemLocal(l) THEN 0 ELSE l.local

Candidatos(S) == {l \in S : l.nome # 0 /\ l.num \notin {95, 96, 97}}

Indicadores(S) ==
    [total |-> Somar(S),
     candidatos |-> Cardinality({l.nome : l \in Candidatos(S)}),
     municipios |-> Cardinality({l.mun : l \in S}),
     zonas |-> Cardinality({<<l.uf, l.zona>> : l \in S}),
     locais |-> Cardinality({<<l.mun, l.zona, Local(l)>> : l \in S}),
     secoes |-> Cardinality({<<l.mun, l.zona, l.secao>> : l \in S})]

PorNome(S) ==
    {LET G == {l \in S : l.nome = n}
     IN  [nome |-> n, num |-> Min({l.num : l \in G}), votos |-> Somar(G)] : n \in {l.nome : l \in S}}

\* ORDER BY votos DESC, nm_votavel LIMIT
Ranking(S) ==
    LET itens == PorNome(Candidatos(S))
        Antes(i) == {j \in itens : j.votos > i.votos \/ (j.votos = i.votos /\ j.nome < i.nome)}
    IN  {i \in itens : Cardinality(Antes(i)) < LimiteRanking}

Comparativo(S, f) == IF f.nomes = {} THEN {} ELSE PorNome(S)

\* The groups of a dimension; a place that the source does not name is no group.
Lugar(l, dimensao) ==
    CASE dimensao = "municipio" -> <<l.mun>>
      [] dimensao = "zona"      -> <<l.zona>>
      [] dimensao = "local"     -> <<l.zona, Local(l)>>
      [] dimensao = "secao"     -> <<l.zona, Local(l), l.secao>>

Distribuicao(S, dimensao) ==
    {[lugar |-> k, votos |-> Somar({l \in S : Lugar(l, dimensao) = k})]
        : k \in {Lugar(l, dimensao) : l \in {x \in S : dimensao = "local" => ~SemLocal(x)}}}

DistribuicaoPorCandidato(S, dimensao) ==
    {[lugar |-> k[1], candidato |-> k[2],
      votos |-> Somar({l \in S : Lugar(l, dimensao) = k[1] /\ l.nome = k[2]})]
        : k \in {<<Lugar(l, dimensao), l.nome>> :
                    l \in {x \in S : x.nome # 0 /\ (dimensao = "local" => ~SemLocal(x))}}}

\* electoral_zone_results, always from the raw table
ResultadosDeZona(f, s) ==
    LET S == {l \in Bruto(f, s) : l.nome # 0 /\ <<l.mun, l.zona>> \in ZonasGlobais}
    IN  {[zona |-> z, candidatos |-> PorNome({l \in S : <<l.mun, l.zona>> = z})]
            : z \in {<<l.mun, l.zona>> : l \in S}}

\* map_points: the groups with votes and coordinates, of each candidate when the
\* filter names candidates.
Pontos(f, s, modo) ==
    LET S == {l \in Bruto(f, s) : l.mun \in Localizados}
        Chave(l) == <<IF modo = "zona" THEN <<l.mun, l.zona>>
                      ELSE <<l.mun, l.zona, l.secao, l.local>>,
                      IF f.nomes = {} THEN 0 ELSE l.nome>>
    IN  {p \in {[lugar |-> k[1], candidato |-> k[2], votos |-> Somar({l \in S : Chave(l) = k})]
                   : k \in {Chave(l) : l \in S}} : p.votos > 0}

DoCandidato(P, c) == {p \in P : p.candidato = c}

\* ROW_NUMBER() <= limit within each candidate: ties are cut anyhow.
Cortes(P) ==
    {Q \in SUBSET P :
        \A c \in {p.candidato : p \in P} :
            /\ Cardinality(DoCandidato(Q, c)) = Min({LimiteMapa, Cardinality(DoCandidato(P, c))})
            /\ \A p \in DoCandidato(P, c) \ Q, q \in DoCandidato(Q, c) : q.votos >= p.votos}

\* GestaoEleitoralService.map_points: a series that fills its limit is marked as cut.
Truncado(Q) == \E p \in Q : Cardinality(DoCandidato(Q, p.candidato)) >= LimiteMapa

\* export_map_rows: no limit, one row per candidate, office and place.
Exportacao(f, s, modo) ==
    LET S == {l \in Bruto(f, s) : l.mun \in Localizados}
        C == CamposZona \cup {"nome"} \cup (IF modo = "zona" THEN {} ELSE {"local", "secao"})
    IN  {r \in {[chave |-> k, votos |-> Somar({l \in S : Projetar(l, C) = k})]
                   : k \in {Projetar(l, C) : l \in S}} : r.votos > 0}

\* GestaoEleitoralService.panel: each block is asked on its own.
Painel(f, s) ==
    [indicadores |-> Indicadores(Analitico(f, s, "secao")),
     ranking |-> IF f.cargos = {} THEN {} ELSE Ranking(Analitico(f, s, "municipio")),
     comparativo |-> Comparativo(Analitico(f, s, "municipio"), f),
     por |-> [d \in {"municipio", "zona", "local", "secao"} |->
                IF Cardinality(f.nomes) > 1
                THEN DistribuicaoPorCandidato(Analitico(f, s, d), d)
                ELSE Distribuicao(Analitico(f, s, d), d)]]

-----------------------------------------------------------------------------
(* The options of the filters *)

\* _can_use_locality_catalog
UsaLocalidades(f, s) ==
    /\ f.nomes = {} /\ f.cargos = {} /\ f.locais = {} /\ f.secoes = {} /\ s.secoes = {}
    /\ ComAgregado(f)

ListaLocalidades(f, s) == Passa(UNION {consolidado[e].localidades : e \in f.chaves}, f, s)

Municipios(f, s) ==
    {l.mun : l \in IF UsaLocalidades(f, s) THEN ListaLocalidades(f, s)
                   ELSE Analitico(f, s, "municipio")}

Zonas(f, s) ==
    {l.zona : l \in IF UsaLocalidades(f, s) THEN ListaLocalidades(f, s)
                    ELSE Analitico(f, s, "zona")}

Locais(f, s) == {l.local : l \in {x \in Analitico(f, s, "local") : ~SemLocal(x)}}

Secoes(f, s) == {l.secao : l \in Analitico(f, s, "secao")}

\* _list_scope_states
UfsDoEscopo(s) ==
    IF s.irrestrito THEN {UfDe[m] : m \in DOMAIN UfDe}
    ELSE s.ufs \cup {UfDe[m] : m \in s.muns \cup {z[1] : z \in s.zonas \cap ZonasGlobais}
                                     \cup {x[1] : x \in s.secoes \cap SecoesGlobais}}

SemLugar(f) == f.ufs = {} /\ f.muns = {} /\ f.zonas = {} /\ f.locais = {} /\ f.secoes = {}

\* _list_available_states: the states with data, of the scope.
EstadosComDados(s) == {l.uf : l \in tabela} \cap UfsDoEscopo(s)

\* _list_election_states: the same of the selected elections, without reading what
\* the scope leaves of their rows.
EstadosDaEleicao(chaves, s) == {l.uf : l \in {x \in tabela : x.e \in chaves}} \cap UfsDoEscopo(s)

\* list_states
Estados(f, s) ==
    IF f.chaves = {} THEN EstadosComDados(s)
    ELSE IF f.nomes = {} /\ f.cargos = {} /\ SemLugar(f) THEN EstadosDaEleicao(f.chaves, s)
    ELSE {l.uf : l \in Bruto(f, s)}

\* _list_election_offices
CargosDaEleicao(chaves) == {l.cargo : l \in {x \in tabela : x.e \in chaves}}

\* list_offices
Cargos(f, s) ==
    IF s.irrestrito /\ f.chaves # {} /\ f.nomes = {} /\ SemLugar(f)
    THEN CargosDaEleicao(f.chaves)
    ELSE {l.cargo : l \in Bruto(f, s)}

\* _election_scope_filter: an election of which some row is in the scope.
EleicaoNoEscopo(e, s) == \E l \in DaEleicao(tabela, e) : NoEscopo(l, s)

\* list_elections
ListaEleicoes(s) == {e \in Eleicoes : DaEleicao(tabela, e) # {} /\ EleicaoNoEscopo(e, s)}

\* _candidate_identity_sql: the facts of the same name in the same election.
Fatos(v) == {l \in tabela : l.e = v.e /\ l.nome = v.nome}

\* _candidate_scope_sql: once for the access and once for the places selected.
Alcancado(v, f, s) ==
    /\ s.irrestrito \/ v.uf \in s.ufs \/ \E l \in Fatos(v) : NoTerritorio(l, s)
    /\ SemLugar([f EXCEPT !.ufs = {}]) \/ \E l \in Fatos(v) : NoLugar(l, f)

\* search_candidates
Busca(f, s) ==
    {v.nome : v \in {x \in votaveis :
        /\ Listado(f.chaves, x.e) /\ Listado(f.ufs, x.uf) /\ Listado(f.cargos, x.cargo)
        /\ Alcancado(x, f, s)}}

-----------------------------------------------------------------------------
(* Properties *)

Escopos == {EscopoDe(a) : a \in Acessos}

\* The aggregates of the elections of f are those of the table as it is.
EmDia(f) == /\ ComAgregado(f)
            /\ \A e \in f.chaves : consolidado[e].secao = NivelSecao(DaEleicao(tabela, e))

Respostas(f, Linhas(_)) ==
    <<Indicadores(Linhas("secao")), Ranking(Linhas("municipio")), Comparativo(Linhas("municipio"), f),
      [d \in {"municipio", "zona", "local", "secao"} |->
          <<Distribuicao(Linhas(d), d), DistribuicaoPorCandidato(Linhas(d), d)>>]>>

\* The answers from aggregates that are up to date are those of the raw table, for
\* every filter and access: the level chosen keeps what they look at.
MesmaResposta(f, s) ==
    LET doAgregado(n) == Analitico(f, s, n)
        daTabela(n)   == Bruto(f, s)
    IN  /\ Respostas(f, doAgregado) = Respostas(f, daTabela)
        /\ Municipios(f, s) = {l.mun : l \in Bruto(f, s)}
        /\ Zonas(f, s) = {l.zona : l \in Bruto(f, s)}
        /\ Locais(f, s) = {l.local : l \in Bruto(f, s)} \ {0}
        /\ Secoes(f, s) = {l.secao : l \in Bruto(f, s)}
        /\ \A z \in ResultadosDeZona(f, s) :
              f.muns = {z.zona[1]} =>
                 Somar(z.candidatos)
                   = Somar({i \in DistribuicaoPorCandidato(Analitico(f, s, "zona"), "zona") :
                               i.lugar = <<z.zona[2]>>})

\* The blocks of one panel, each from its own level, tell the same total.
PainelFecha(f, s) ==
    LET p == Painel(f, s)
        total == p.indicadores.total
        semLocal == Somar({l \in Analitico(f, s, "local") : SemLocal(l)})
    IN  /\ \A d \in {"municipio", "zona", "secao"} : Somar(p.por[d]) = total
        /\ Somar(p.por["local"]) + semLocal = total
        /\ Somar(p.ranking) <= total
        /\ f.nomes # {} => Somar(p.comparativo) = total

NomeCatalogado(l) ==
    Max({k.nome : k \in {x \in tabela : /\ x.e = l.e /\ x.uf = l.uf
                                       /\ x.cargo = l.cargo /\ x.num = l.num}})

\* What the filters offer, and the search finds, is what the rows have: a name is
\* lost only where the catalogue keeps another for its number.
OfertaConfere(f, s) ==
    LET ufs == {l.uf : l \in Bruto(f, s)}
    IN  /\ ufs \subseteq Estados(f, s) /\ (s.irrestrito /\ f.chaves # {} => ufs = Estados(f, s))
        /\ {l.cargo : l \in Bruto(f, s)} \subseteq Cargos(f, s)
        /\ f.cargos = {} => {l.cargo : l \in Bruto(f, s)} = Cargos(f, s)
        /\ {l.e : l \in Bruto(f, s)} \subseteq ListaEleicoes(s)
        /\ \A l \in Bruto(f, s) :
              l.nome # 0 /\ l.nome = NomeCatalogado(l) => l.nome \in Busca(f, s)

\* A map that is not marked as cut has every vote of the exported file.
MapaInteiro(f, s) ==
    \A modo \in {"zona", "secao"} : \A Q \in Cortes(Pontos(f, s, modo)) :
        Truncado(Q) \/ Somar(Q) = Somar(Exportacao(f, s, modo))

\* CONSULTA. Checked where the aggregates of the filter are used.
ConsultaConfere ==
    \A f \in {x \in Filtros : ComAgregado(x)} : \A s \in Escopos :
        /\ PainelFecha(f, s)
        /\ EmDia(f) => MesmaResposta(f, s) /\ OfertaConfere(f, s) /\ MapaInteiro(f, s)

\* RESULTADOS. Generations and entries are coherent while loads, refreshes and readers
\* overlap, and the answers from the aggregates are those of the raw table.
ResultadoConfere == GeracaoConfere /\ ConsultaConfere

=============================================================================
