CONSTANTS
    Pessoas = {p1}
    Liderados = {p1}
    Conversas = {r1, r2}
    MaxRespostas = 3
    Nada = Nada
    Metas = {1}
    Datas = {1, 2}
    Hoje = 1
    Quantidades = {1}
    Limiar = 70
    StatusPedidos = {"ativa", "suspensa"}
    Chamadas = {r1, r2}
    r1 = r1
    r2 = r2
    Job = Job
    MaxOperacoes = 2
SPECIFICATION SpecMCJusta
CHECK_DEADLOCK FALSE
ACTION_CONSTRAINT UmaArea
INVARIANTS SozinhaAcerta RespostaVale
PROPERTY CanceladaConfere CalculosTerminam
