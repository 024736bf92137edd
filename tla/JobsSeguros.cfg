CONSTANTS
    final = final
    ok = ok
    Tenants = {1}
    Referencias = {metas, relatorios}
    Diretas = {relatorios}
    Recusadas = {}
    Jobs = {1, 2, 3}
    Agendadores = {s1, s2}
    Trabalhadores = {w1, w2}
    MaxEntregas = 2
    BrokerFalha = TRUE
    AgendadorCai = TRUE
    Nada = Nada
    Demandas = {t1}
    Resultados = {ok}
    Finais = {final}
    Abertas = {pendente}
    Inicial = pendente
    Edicoes = {s1, s2}
    Pedidos <- Pedidos0
    Dias = 1
    Antecedencia = 1
    Nulo = Nulo
    Manter = Manter
    Obreiros = {w1, w2}
    Leitores = {s1, s2}
    MaxCargas = 1
    MaxGeracoes = 2
    Cru = Cru
    Vazio = Vazio
    Ausente = Ausente
    e1 = e1
    e2 = e2
    Eleicoes = {e1, e2}
    Tabelas <- Tabelas0
    Filtros <- Filtros0
    Acessos <- Acessos0
    UfDe <- UfDe0
    MunicipioDe <- MunicipioDe0
    ZonasGlobais <- Zonas0
    SecoesGlobais <- Secoes0
    Localizados = {1, 3}
    LimiteRanking = 2
    LimiteMapa = 4
SPECIFICATION SpecJobs
\* The bounds use up the ids of the jobs and the requests: the system may stop.
CHECK_DEADLOCK FALSE
SYMMETRY Simetria
INVARIANTS SimultaneosSoRepetidos LinhaConfere DemandaConfere ResultadoConfere
